---------------------------- MODULE Spec2Model ----------------------------
(***************************************************************************)
(* fcmlib: the SVG path front end (src/src/svg_path.rs).                   *)
(*                                                                         *)
(* Numbers.  The source computes in f64.  The model computes in fixed      *)
(* point: every source coordinate is an integer count of 1/Res source      *)
(* units, so that the close tolerance 1e-3 is Res/1000 counts and the 2/3  *)
(* of the quadratic elevation is exact on whole source units.  Native      *)
(* (FCM) coordinates are integers, as in the source (i32).                 *)
(*                                                                         *)
(* Indices.  i, pos and the error positions keep the source's 0-based      *)
(* values; TLA+ sequences are 1-based, so token k of the source is         *)
(* tokens[k + 1].                                                          *)
(***************************************************************************)
EXTENDS Integers, Sequences, FiniteSets, TLC

(***************************************************************************)
(* Fixed point and the configuration.  An SvgConfig is a record: dpi and   *)
(* scale are whole numbers, the offsets are in thousandths of a millimetre.*)
(* dpi, scale, offset_x_mm and offset_y_mm below are the fields of         *)
(* SvgConfig::default().                                                   *)
(***************************************************************************)
Res == 3000

dpi == 96
scale == 1
offset_x_mm == 0
offset_y_mm == 0

SvgConfig_default ==
    [dpi |-> dpi, scale |-> scale, offset_x_mm |-> offset_x_mm,
     offset_y_mm |-> offset_y_mm]

\* config is the SvgConfig of the parser (self.config) or the one a
\* conversion is called on (self); the other variables are declared below.
VARIABLE config

Abs(n) == IF n < 0 THEN -n ELSE n

\* f64::round: nearest integer, halves away from zero (a / b, b > 0).
RoundDiv(a, b) ==
    IF a >= 0 THEN (2 * a + b) \div (2 * b) ELSE -((2 * (-a) + b) \div (2 * b))

\* `x as i32` on a float: truncation toward zero (a / b, b > 0).
TruncDiv(a, b) == IF a >= 0 THEN a \div b ELSE -((-a) \div b)

\* Mutant: the product is truncated, not rounded.
to_fcm_Truncated(svg_value) ==
    TruncDiv(svg_value * 254 * config.scale, config.dpi * (Res \div 10))

\* svg_value / dpi * 25.4 * scale * 100, rounded; svg_value in 1/Res units.
to_fcm(svg_value) ==
    RoundDiv(svg_value * 254 * config.scale, config.dpi * (Res \div 10))

\* The offsets are kept in thousandths of a millimetre: (mm * 100.0) as i32.
point_to_fcm(x, y) ==
    [x |-> to_fcm(x) + TruncDiv(config.offset_x_mm, 10),
     y |-> to_fcm(y) + TruncDiv(config.offset_y_mm, 10)]

(***************************************************************************)
(* Tokens and internal segments.                                           *)
(***************************************************************************)
Command(c) == [type |-> "Command", cmd |-> c, num |-> 0]
Number(n) == [type |-> "Number", cmd |-> " ", num |-> n]

Line(x, y) == [kind |-> "Line", c1x |-> 0, c1y |-> 0, c2x |-> 0, c2y |-> 0,
               x |-> x, y |-> y]
Cubic(c1x, c1y, c2x, c2y, x, y) ==
    [kind |-> "Cubic", c1x |-> c1x, c1y |-> c1y, c2x |-> c2x, c2y |-> c2y,
     x |-> x, y |-> y]

UpperLetters == {"M", "L", "H", "V", "C", "S", "Q", "T", "A", "Z"}
LowerLetters == {"m", "l", "h", "v", "c", "s", "q", "t", "a", "z"}
CommandLetters == UpperLetters \cup LowerLetters

is_lowercase(c) == c \in LowerLetters

to_ascii_uppercase(c) ==
    CASE c = "m" -> "M" [] c = "l" -> "L" [] c = "h" -> "H" [] c = "v" -> "V"
      [] c = "c" -> "C" [] c = "s" -> "S" [] c = "q" -> "Q" [] c = "t" -> "T"
      [] c = "a" -> "A" [] c = "z" -> "Z" [] OTHER -> c


(***************************************************************************)
(* State of one call of parse_to_subpaths.  d is the path string as a      *)
(* sequence of characters and pos the tokenizer's position in it; tokens   *)
(* is the token vector that tokenize builds and parse_tokens reads; pc     *)
(* says which of the two is running.  The other variables are the locals   *)
(* of parse_tokens; ret is the value the call returns (NoReturn while it   *)
(* runs).  literals describes the input: the command letters, separators   *)
(* and numeric literals that d was written from (d is the concatenation of *)
(* their texts); the program never reads it.  svg is the point a caller    *)
(* hands to to_fcm / point_to_fcm and fcm the results of its calls, in     *)
(* order; returned holds what an earlier call of the parser on the same    *)
(* path, written in another form, returned.  other_call is the frame of a  *)
(* second call of parse_tokens on the same parser, on another thread: its  *)
(* number, its tokens and its locals while that thread is not the one that *)
(* steps.  page is the PageSize handed to the registration marks and to a  *)
(* conversion routine, marks the results of the calls of                   *)
(* calculate_mark_positions and get_fcm_alignment_marks, caller the        *)
(* conversion routine that called the parser and file what it returned.    *)
(* min_x, min_y, max_x, max_y and paths are the arguments of a call of     *)
(* generate_thumbnail, pixels, cur_x and cur_y its locals, next_seg the    *)
(* position of its loops over the paths, draw_line the locals of the line  *)
(* being drawn and bmp the bytes the call returns.                         *)
(***************************************************************************)
VARIABLES d, pos, pc, literals, tokens, i, subpaths, current_x, current_y,
          subpath_start_x, subpath_start_y, current_segments, has_start,
          last_control_x, last_control_y, last_command, ret, svg, fcm,
          returned, other_call, page, marks, file, caller, min_x, min_y,
          max_x, max_y, paths, pixels, cur_x, cur_y, next_seg, draw_line, bmp

\* The call of generate_thumbnail.
thumbnail_vars ==
    <<min_x, min_y, max_x, max_y, paths, pixels, cur_x, cur_y, next_seg,
      draw_line, bmp>>

\* The variables of the callers of the parser: the registration marks and
\* the conversion routines of the examples.
app_vars == <<page, marks, file, caller, thumbnail_vars>>

vars == <<config, d, pos, pc, literals, tokens, i, subpaths, current_x,
          current_y, subpath_start_x, subpath_start_y, current_segments,
          has_start, last_control_x, last_control_y, last_command, ret, svg,
          fcm, returned, other_call, page, marks, file, caller,
          thumbnail_vars>>

\* generate_thumbnail is not called.
NoThumbnail ==
    /\ min_x = 0
    /\ min_y = 0
    /\ max_x = 0
    /\ max_y = 0
    /\ paths = <<>>
    /\ pixels = <<>>
    /\ cur_x = 0
    /\ cur_y = 0
    /\ next_seg = [path |-> 0, seg |-> 0]
    /\ draw_line = [x1 |-> 0, y1 |-> 0, dx |-> 0, dy |-> 0, sx |-> -1, sy |-> -1,
                    err |-> 0, x |-> 0, y |-> 0]
    /\ bmp = <<>>

NoReturn == [tag |-> "None", subpaths |-> <<>>, message |-> "", position |-> 0]
Ok(sps) == [tag |-> "Ok", subpaths |-> sps, message |-> "", position |-> 0]
Err(msg, p) == [tag |-> "Err", subpaths |-> <<>>, message |-> msg, position |-> p]
\* An index or a slice start past the end of the token slice: the call does
\* not return, the thread unwinds.
Panic == [tag |-> "Panic", subpaths |-> <<>>, message |-> "index out of bounds",
          position |-> 0]

IsNumberAt(k) == k < Len(tokens) /\ tokens[k + 1].type = "Number"

\* The locals of parse_tokens at its entry (lines 115-128), as a record, and
\* the frame of call number n on the tokens t before its first step.
EntryLocals ==
    [i |-> 0, subpaths |-> <<>>, current_x |-> 0, current_y |-> 0,
     subpath_start_x |-> 0, subpath_start_y |-> 0, current_segments |-> <<>>,
     has_start |-> FALSE, last_control_x |-> 0, last_control_y |-> 0,
     last_command |-> " ", ret |-> NoReturn]
Frame(n, t) == [call |-> n, tokens |-> t, locals |-> EntryLocals]
NoCall == Frame(0, <<>>)

\* The locals as one record, so that the operand loops can thread them.
Locals ==
    [i |-> i, subpaths |-> subpaths, current_x |-> current_x,
     current_y |-> current_y, subpath_start_x |-> subpath_start_x,
     subpath_start_y |-> subpath_start_y,
     current_segments |-> current_segments, has_start |-> has_start,
     last_control_x |-> last_control_x, last_control_y |-> last_control_y,
     last_command |-> last_command, ret |-> ret]

Commit(s) ==
    /\ i' = s.i
    /\ subpaths' = s.subpaths
    /\ current_x' = s.current_x
    /\ current_y' = s.current_y
    /\ subpath_start_x' = s.subpath_start_x
    /\ subpath_start_y' = s.subpath_start_y
    /\ current_segments' = s.current_segments
    /\ has_start' = s.has_start
    /\ last_control_x' = s.last_control_x
    /\ last_control_y' = s.last_control_y
    /\ last_command' = s.last_command
    /\ ret' = s.ret
    /\ UNCHANGED <<config, d, pos, pc, literals, tokens, svg, fcm, returned,
                   other_call, app_vars>>

(***************************************************************************)
(* read_number, read_point.  A result is [ret, x, y, consumed]; ret is     *)
(* NoReturn on success and the Err (or Panic) that `?` propagates.         *)
(***************************************************************************)
\* read_number(&tokens[k]): indexing past the end panics.
read_number(k) ==
    IF k >= Len(tokens) THEN [ret |-> Panic, n |-> 0]
    ELSE IF tokens[k + 1].type = "Number"
         THEN [ret |-> NoReturn, n |-> tokens[k + 1].num]
         ELSE [ret |-> Err("Expected number, got command", 0), n |-> 0]

\* Mutant: the length test of read_point is missing.
read_point_Unchecked(k, is_relative, cx, cy) ==
    LET rx == read_number(k)
        ry == read_number(k + 1)
    IN IF rx.ret.tag # "None"
       THEN [ret |-> rx.ret, x |-> 0, y |-> 0, consumed |-> 0]
       ELSE IF ry.ret.tag # "None"
       THEN [ret |-> ry.ret, x |-> 0, y |-> 0, consumed |-> 0]
       ELSE IF is_relative
       THEN [ret |-> NoReturn, x |-> cx + rx.n, y |-> cy + ry.n, consumed |-> 2]
       ELSE [ret |-> NoReturn, x |-> rx.n, y |-> ry.n, consumed |-> 2]

\* read_point(&tokens[k..], is_relative, cx, cy): slicing past the end panics.
read_point(k, is_relative, cx, cy) ==
    IF k > Len(tokens) THEN [ret |-> Panic, x |-> 0, y |-> 0, consumed |-> 0]
    ELSE IF Len(tokens) - k < 2
    THEN [ret |-> Err("Not enough values for point", 0),
          x |-> 0, y |-> 0, consumed |-> 0]
    ELSE LET rx == read_number(k)
             ry == read_number(k + 1)
         IN IF rx.ret.tag # "None"
            THEN [ret |-> rx.ret, x |-> 0, y |-> 0, consumed |-> 0]
            ELSE IF ry.ret.tag # "None"
            THEN [ret |-> ry.ret, x |-> 0, y |-> 0, consumed |-> 0]
            ELSE IF is_relative
            THEN [ret |-> NoReturn, x |-> cx + rx.n, y |-> cy + ry.n,
                  consumed |-> 2]
            ELSE [ret |-> NoReturn, x |-> rx.n, y |-> ry.n, consumed |-> 2]

(***************************************************************************)
(* build_subpath: the outline is Bezier when any segment is cubic.         *)
(***************************************************************************)
SegmentLine(end) == [end |-> end]
SegmentBezier(c1, c2, end) == [control1 |-> c1, control2 |-> c2, end |-> end]

\* Mutant: only the first segment decides the variant.
has_beziers_FirstOnly(segments) ==
    segments # <<>> /\ segments[1].kind = "Cubic"

has_beziers(segments) ==
    \E k \in 1..Len(segments) : segments[k].kind = "Cubic"

BezierOf(seg) ==
    IF seg.kind = "Line"
    THEN LET end == point_to_fcm(seg.x, seg.y) IN SegmentBezier(end, end, end)
    ELSE SegmentBezier(point_to_fcm(seg.c1x, seg.c1y),
                       point_to_fcm(seg.c2x, seg.c2y),
                       point_to_fcm(seg.x, seg.y))

LineOf(seg) == SegmentLine(point_to_fcm(seg.x, seg.y))

build_subpath(start_x, start_y, segments, closed) ==
    [start |-> point_to_fcm(start_x, start_y),
     outline |->
        IF has_beziers(segments)
        THEN [variant |-> "Bezier",
              segments |-> [k \in 1..Len(segments) |-> BezierOf(segments[k])]]
        ELSE [variant |-> "Line",
              segments |-> [k \in 1..Len(segments) |-> LineOf(segments[k])]],
     closed |-> closed]

(***************************************************************************)
(* arc_to_beziers.  The two degenerate cases are as in the source.  Of the *)
(* proper arcs the model covers three classes of circular ones             *)
(* (|rx| = |ry|, rotation 0), on which the f64 computation is exact up to  *)
(* the last rounding:                                                      *)
(*  - an axis-parallel chord whose radius does not exceed half the chord:  *)
(*    lambda >= 1, the radius is scaled to half the chord, the centre is   *)
(*    the chord's midpoint, dtheta is +pi (sweep) or -pi, n_curves is 2;   *)
(*  - a diagonal chord with |dx| = |dy| = r: lambda = 1/2, sq = 1, the     *)
(*    centre is a corner of the chord's square, the raw angle is +-pi/2    *)
(*    and dtheta is +-pi/2 or +-3pi/2: n_curves is 1 or 3;                 *)
(*  - a horizontal chord of at most 2^-27 of the radius: the two unit      *)
(*    vectors of angle() differ by less than the f64 can tell, dot / len   *)
(*    is 1.0, acos gives 0, dtheta stays 0 whatever the flags (neither     *)
(*    `dtheta > 0.0` nor `dtheta < 0.0` holds), n_curves is                *)
(*    ceil(0 / (pi/2)) = 0 and the loop does not run.                      *)
(* The angles of the first two classes are multiples of 90 degrees.  alpha *)
(* for a quarter turn is sin(pi/2) * (sqrt(4 + 3 * tan(pi/8)^2) - 1) / 3   *)
(* = 0.3749...; the inputs drawn below stay inside these classes (the CASE *)
(* has no OTHER).                                                          *)
(***************************************************************************)
AlphaNum == 3749
AlphaDen == 10000

ArcHalfTurn(x1, y1, x2, y2, sweep) ==
    LET cx == (x1 + x2) \div 2
        cy == (y1 + y2) \div 2
        h == Abs(x1 - cx) + Abs(y1 - cy)
        u0 == <<(x1 - cx) \div h, (y1 - cy) \div h>>
        Rot(v) == IF sweep THEN <<-v[2], v[1]>> ELSE <<v[2], -v[1]>>
        u1 == Rot(u0)
        u2 == Rot(u1)
        a == IF sweep THEN RoundDiv(AlphaNum * h, AlphaDen)
             ELSE -RoundDiv(AlphaNum * h, AlphaDen)
        Piece(v, w) ==
            LET p1x == cx + h * v[1]
                p1y == cy + h * v[2]
                p2x == cx + h * w[1]
                p2y == cy + h * w[2]
            IN Cubic(p1x + a * (-v[2]), p1y + a * v[1],
                     p2x - a * (-w[2]), p2y - a * w[1], p2x, p2y)
    IN <<Piece(u0, u1), Piece(u1, u2)>>

\* n_curves quarter turns around (cx, cy) from the point at h * u0.
ArcQuarterTurns(cx, cy, h, u0, n_curves, sweep) ==
    LET Rot(v) == IF sweep THEN <<-v[2], v[1]>> ELSE <<v[2], -v[1]>>
        u == [k \in 0..3 |-> CASE k = 0 -> u0
                                [] k = 1 -> Rot(u0)
                                [] k = 2 -> Rot(Rot(u0))
                                [] k = 3 -> Rot(Rot(Rot(u0)))]
        a == IF sweep THEN RoundDiv(AlphaNum * h, AlphaDen)
             ELSE -RoundDiv(AlphaNum * h, AlphaDen)
        Turn(v, w) ==
            LET p1x == cx + h * v[1]
                p1y == cy + h * v[2]
                p2x == cx + h * w[1]
                p2y == cy + h * w[2]
            IN Cubic(p1x + a * (-v[2]), p1y + a * v[1],
                     p2x - a * (-w[2]), p2y - a * w[1], p2x, p2y)
    IN [k \in 1..n_curves |-> Turn(u[k - 1], u[k])]

\* The diagonal chord: cxp = sq * y1p, cyp = -sq * x1p with sq = -1 when
\* large_arc = sweep and 1 otherwise.
ArcOnDiagonal(x1, y1, r, large_arc, sweep, x2, y2) ==
    LET sq == IF large_arc = sweep THEN -1 ELSE 1
        cx == (x1 + x2 + sq * (y1 - y2)) \div 2
        cy == (y1 + y2 - sq * (x1 - x2)) \div 2
    IN ArcQuarterTurns(cx, cy, r, <<(x1 - cx) \div r, (y1 - cy) \div r>>,
                       IF large_arc THEN 3 ELSE 1, sweep)

\* 2^27: a chord of the radius divided by it is below what angle() resolves.
AngleResolution == 134217728

IsHalfTurnArc(x1, y1, rx, ry, x_rotation, x2, y2) ==
    /\ x_rotation = 0
    /\ Abs(rx) = Abs(ry)
    /\ (x1 = x2 \/ y1 = y2)
    /\ (x1 + x2) % 2 = 0 /\ (y1 + y2) % 2 = 0
    /\ 2 * Abs(rx) <= Abs(x1 - x2) + Abs(y1 - y2)
IsDiagonalArc(x1, y1, rx, ry, x_rotation, x2, y2) ==
    /\ x_rotation = 0
    /\ Abs(rx) = Abs(ry)
    /\ Abs(x1 - x2) = Abs(rx)
    /\ Abs(y1 - y2) = Abs(rx)
IsUnresolvedArc(x1, y1, rx, ry, x_rotation, x2, y2) ==
    /\ x_rotation = 0
    /\ Abs(rx) = Abs(ry)
    /\ y1 = y2
    /\ Abs(x1 - x2) <= Abs(rx) \div AngleResolution

\* Mutant: the radii are tested before the endpoint.
arc_to_beziers_RadiiFirst(x1, y1, rx, ry, x_rotation, large_arc, sweep, x2, y2) ==
    IF rx = 0 \/ ry = 0 THEN <<Line(x2, y2)>>
    ELSE IF x1 = x2 /\ y1 = y2 THEN <<>>
    ELSE CASE IsHalfTurnArc(x1, y1, rx, ry, x_rotation, x2, y2)
              -> ArcHalfTurn(x1, y1, x2, y2, sweep)
           [] IsDiagonalArc(x1, y1, rx, ry, x_rotation, x2, y2)
              -> ArcOnDiagonal(x1, y1, Abs(rx), large_arc, sweep, x2, y2)
           [] IsUnresolvedArc(x1, y1, rx, ry, x_rotation, x2, y2)
              -> <<>>

\* The two tests of lines 615-621 compare with 1e-10, which on the fixed-point
\* grid (steps of 1/Res) is equality.
arc_to_beziers(x1, y1, rx, ry, x_rotation, large_arc, sweep, x2, y2) ==
    IF x1 = x2 /\ y1 = y2 THEN <<>>
    ELSE IF rx = 0 \/ ry = 0 THEN <<Line(x2, y2)>>
    ELSE CASE IsHalfTurnArc(x1, y1, rx, ry, x_rotation, x2, y2)
              -> ArcHalfTurn(x1, y1, x2, y2, sweep)
           [] IsDiagonalArc(x1, y1, rx, ry, x_rotation, x2, y2)
              -> ArcOnDiagonal(x1, y1, Abs(rx), large_arc, sweep, x2, y2)
           [] IsUnresolvedArc(x1, y1, rx, ry, x_rotation, x2, y2)
              -> <<>>

(***************************************************************************)
(* The arms of parse_tokens.  Each operand loop takes the locals s and     *)
(* returns them after the loop; a failed read sets s.ret and ends it.      *)
(***************************************************************************)
\* Mutant: the error is returned together with the subpaths flushed so far.
Fail_WithFlushed(s, r) == [s EXCEPT !.ret = [r EXCEPT !.subpaths = s.subpaths]]

Fail(s, r) == [s EXCEPT !.ret = r]

\* 2.0 / 3.0 * d on the fixed-point grid.
TwoThirds(delta) == RoundDiv(2 * delta, 3)

RECURSIVE LineToLoop(_, _)
LineToLoop(s, is_relative) ==
    IF ~IsNumberAt(s.i) THEN s
    ELSE LET p == read_point(s.i, is_relative, s.current_x, s.current_y)
         IN IF p.ret.tag # "None" THEN Fail(s, p.ret)
            ELSE LineToLoop(
                    [s EXCEPT !.i = @ + p.consumed,
                              !.current_segments = Append(@, Line(p.x, p.y)),
                              !.current_x = p.x,
                              !.current_y = p.y], is_relative)

\* Mutant: the flushed segments are not cleared.
FlushOnMove_KeepSegments(s) ==
    IF s.has_start /\ s.current_segments # <<>>
    THEN [s EXCEPT !.subpaths =
                      Append(@, build_subpath(s.subpath_start_x, s.subpath_start_y,
                                              s.current_segments, FALSE))]
    ELSE s

\* 'M': flush an open subpath unclosed, read the start, then implicit LineTo.
FlushOnMove(s) ==
    IF s.has_start /\ s.current_segments # <<>>
    THEN [s EXCEPT !.subpaths =
                      Append(@, build_subpath(s.subpath_start_x, s.subpath_start_y,
                                              s.current_segments, FALSE)),
                   !.current_segments = <<>>]
    ELSE s

\* Mutant: the start of the subpath follows the implicit lines of the move.
MoveTo_StartAtCurrent(s0, is_relative) ==
    LET s == FlushOnMove(s0)
        p == read_point(s.i, is_relative, s.current_x, s.current_y)
        r == LineToLoop(
               [s EXCEPT !.i = @ + p.consumed,
                         !.subpath_start_x = p.x,
                         !.subpath_start_y = p.y,
                         !.current_x = p.x,
                         !.current_y = p.y,
                         !.has_start = TRUE], is_relative)
    IN IF p.ret.tag # "None" THEN Fail(s, p.ret)
       ELSE [r EXCEPT !.subpath_start_x = r.current_x,
                      !.subpath_start_y = r.current_y]

MoveTo(s0, is_relative) ==
    LET s == FlushOnMove(s0)
        p == read_point(s.i, is_relative, s.current_x, s.current_y)
    IN IF p.ret.tag # "None" THEN Fail(s, p.ret)
       ELSE LineToLoop(
               [s EXCEPT !.i = @ + p.consumed,
                         !.subpath_start_x = p.x,
                         !.subpath_start_y = p.y,
                         !.current_x = p.x,
                         !.current_y = p.y,
                         !.has_start = TRUE], is_relative)

\* Mutant: h is read as H.
RECURSIVE HorizontalLoop_Absolute(_, _)
HorizontalLoop_Absolute(s, is_relative) ==
    IF ~IsNumberAt(s.i) THEN s
    ELSE LET r == read_number(s.i)
         IN IF r.ret.tag # "None" THEN Fail(s, r.ret)
            ELSE HorizontalLoop_Absolute(
                    [s EXCEPT !.i = @ + 1,
                              !.current_segments = Append(@, Line(r.n, s.current_y)),
                              !.current_x = r.n], is_relative)

RECURSIVE HorizontalLoop(_, _)
HorizontalLoop(s, is_relative) ==
    IF ~IsNumberAt(s.i) THEN s
    ELSE LET r == read_number(s.i)
             x == IF is_relative THEN s.current_x + r.n ELSE r.n
         IN IF r.ret.tag # "None" THEN Fail(s, r.ret)
            ELSE HorizontalLoop(
                    [s EXCEPT !.i = @ + 1,
                              !.current_segments = Append(@, Line(x, s.current_y)),
                              !.current_x = x], is_relative)

\* Mutant: V draws from x = 0 instead of the current x.
RECURSIVE VerticalLoop_FromOrigin(_, _)
VerticalLoop_FromOrigin(s, is_relative) ==
    IF ~IsNumberAt(s.i) THEN s
    ELSE LET r == read_number(s.i)
             y == IF is_relative THEN s.current_y + r.n ELSE r.n
         IN IF r.ret.tag # "None" THEN Fail(s, r.ret)
            ELSE VerticalLoop_FromOrigin(
                    [s EXCEPT !.i = @ + 1,
                              !.current_segments = Append(@, Line(0, y)),
                              !.current_x = 0,
                              !.current_y = y], is_relative)

RECURSIVE VerticalLoop(_, _)
VerticalLoop(s, is_relative) ==
    IF ~IsNumberAt(s.i) THEN s
    ELSE LET r == read_number(s.i)
             y == IF is_relative THEN s.current_y + r.n ELSE r.n
         IN IF r.ret.tag # "None" THEN Fail(s, r.ret)
            ELSE VerticalLoop(
                    [s EXCEPT !.i = @ + 1,
                              !.current_segments = Append(@, Line(s.current_x, y)),
                              !.current_y = y], is_relative)

\* Mutant: the two control points are stored in each other's place.
RECURSIVE CubicLoop_SwappedControls(_, _)
CubicLoop_SwappedControls(s, is_relative) ==
    IF ~IsNumberAt(s.i) THEN s
    ELSE LET c1 == read_point(s.i, is_relative, s.current_x, s.current_y)
             c2 == read_point(s.i + 2, is_relative, s.current_x, s.current_y)
             p == read_point(s.i + 4, is_relative, s.current_x, s.current_y)
         IN IF c1.ret.tag # "None" THEN Fail(s, c1.ret)
            ELSE IF c2.ret.tag # "None" THEN Fail(s, c2.ret)
            ELSE IF p.ret.tag # "None" THEN Fail(s, p.ret)
            ELSE CubicLoop_SwappedControls(
                    [s EXCEPT !.i = @ + 6,
                              !.current_segments =
                                  Append(@, Cubic(c2.x, c2.y, c1.x, c1.y, p.x, p.y)),
                              !.last_control_x = c2.x,
                              !.last_control_y = c2.y,
                              !.current_x = p.x,
                              !.current_y = p.y], is_relative)

RECURSIVE CubicLoop(_, _)
CubicLoop(s, is_relative) ==
    IF ~IsNumberAt(s.i) THEN s
    ELSE LET c1 == read_point(s.i, is_relative, s.current_x, s.current_y)
             c2 == read_point(s.i + 2, is_relative, s.current_x, s.current_y)
             p == read_point(s.i + 4, is_relative, s.current_x, s.current_y)
         IN IF c1.ret.tag # "None" THEN Fail(s, c1.ret)
            ELSE IF c2.ret.tag # "None" THEN Fail(s, c2.ret)
            ELSE IF p.ret.tag # "None" THEN Fail(s, p.ret)
            ELSE CubicLoop(
                    [s EXCEPT !.i = @ + 6,
                              !.current_segments =
                                  Append(@, Cubic(c1.x, c1.y, c2.x, c2.y, p.x, p.y)),
                              !.last_control_x = c2.x,
                              !.last_control_y = c2.y,
                              !.current_x = p.x,
                              !.current_y = p.y], is_relative)

\* Mutant: S reflects whatever the previous command was.
SmoothControl_Always(last_cmd, current, last_control) ==
    2 * current - last_control

\* The reflected first control point of S (the guard of lines 225 and 230).
SmoothControl(last_cmd, current, last_control) ==
    IF last_cmd = "C" \/ last_cmd = "S" THEN 2 * current - last_control
    ELSE current

RECURSIVE SmoothCubicLoop(_, _)
SmoothCubicLoop(s, is_relative) ==
    IF ~IsNumberAt(s.i) THEN s
    ELSE LET c1x == SmoothControl(s.last_command, s.current_x, s.last_control_x)
             c1y == SmoothControl(s.last_command, s.current_y, s.last_control_y)
             c2 == read_point(s.i, is_relative, s.current_x, s.current_y)
             p == read_point(s.i + 2, is_relative, s.current_x, s.current_y)
         IN IF c2.ret.tag # "None" THEN Fail(s, c2.ret)
            ELSE IF p.ret.tag # "None" THEN Fail(s, p.ret)
            ELSE SmoothCubicLoop(
                    [s EXCEPT !.i = @ + 4,
                              !.current_segments =
                                  Append(@, Cubic(c1x, c1y, c2.x, c2.y, p.x, p.y)),
                              !.last_control_x = c2.x,
                              !.last_control_y = c2.y,
                              !.current_x = p.x,
                              !.current_y = p.y], is_relative)

\* Mutant: the quadratic control point is used as both cubic control points.
QuadToCubic_ControlAsIs(cx, cy, qx, qy, x, y) == Cubic(qx, qy, qx, qy, x, y)

\* Quadratic (qx, qy) from (cx, cy) to (x, y) as a cubic (lines 258-261).
QuadToCubic(cx, cy, qx, qy, x, y) ==
    Cubic(cx + TwoThirds(qx - cx), cy + TwoThirds(qy - cy),
          x + TwoThirds(qx - x), y + TwoThirds(qy - y), x, y)

RECURSIVE QuadraticLoop(_, _)
QuadraticLoop(s, is_relative) ==
    IF ~IsNumberAt(s.i) THEN s
    ELSE LET q == read_point(s.i, is_relative, s.current_x, s.current_y)
             p == read_point(s.i + 2, is_relative, s.current_x, s.current_y)
         IN IF q.ret.tag # "None" THEN Fail(s, q.ret)
            ELSE IF p.ret.tag # "None" THEN Fail(s, p.ret)
            ELSE QuadraticLoop(
                    [s EXCEPT !.i = @ + 4,
                              !.current_segments =
                                  Append(@, QuadToCubic(s.current_x, s.current_y,
                                                        q.x, q.y, p.x, p.y)),
                              !.last_control_x = q.x,
                              !.last_control_y = q.y,
                              !.current_x = p.x,
                              !.current_y = p.y], is_relative)

\* The reflected control point of T (the guard of lines 274 and 279).
SmoothQuadControl(last_cmd, current, last_control) ==
    IF last_cmd = "Q" \/ last_cmd = "T" THEN 2 * current - last_control
    ELSE current

RECURSIVE SmoothQuadLoop(_, _)
SmoothQuadLoop(s, is_relative) ==
    IF ~IsNumberAt(s.i) THEN s
    ELSE LET qx == SmoothQuadControl(s.last_command, s.current_x, s.last_control_x)
             qy == SmoothQuadControl(s.last_command, s.current_y, s.last_control_y)
             p == read_point(s.i, is_relative, s.current_x, s.current_y)
         IN IF p.ret.tag # "None" THEN Fail(s, p.ret)
            ELSE SmoothQuadLoop(
                    [s EXCEPT !.i = @ + 2,
                              !.current_segments =
                                  Append(@, QuadToCubic(s.current_x, s.current_y,
                                                        qx, qy, p.x, p.y)),
                              !.last_control_x = qx,
                              !.last_control_y = qy,
                              !.current_x = p.x,
                              !.current_y = p.y], is_relative)

\* The reads of one arc operand group, in the order of lines 305-310: the
\* first one that fails decides between a ParseError and a panic.
ArcReads(k, is_relative, cx, cy) ==
    LET rx == read_number(k)
        ry == read_number(k + 1)
        x_rotation == read_number(k + 2)
        large_arc == read_number(k + 3)
        sweep == read_number(k + 4)
        p == read_point(k + 5, is_relative, cx, cy)
        first == IF rx.ret.tag # "None" THEN rx.ret
                 ELSE IF ry.ret.tag # "None" THEN ry.ret
                 ELSE IF x_rotation.ret.tag # "None" THEN x_rotation.ret
                 ELSE IF large_arc.ret.tag # "None" THEN large_arc.ret
                 ELSE IF sweep.ret.tag # "None" THEN sweep.ret
                 ELSE p.ret
    IN [ret |-> first, rx |-> rx.n, ry |-> ry.n, x_rotation |-> x_rotation.n,
        large_arc |-> large_arc.n # 0, sweep |-> sweep.n # 0,
        x |-> p.x, y |-> p.y]

RECURSIVE ArcLoop(_, _)
ArcLoop(s, is_relative) ==
    IF ~IsNumberAt(s.i) THEN s
    ELSE LET a == ArcReads(s.i, is_relative, s.current_x, s.current_y)
         IN IF a.ret.tag # "None" THEN Fail(s, a.ret)
            ELSE ArcLoop(
                    [s EXCEPT !.i = @ + 7,
                              !.current_segments =
                                  @ \o arc_to_beziers(s.current_x, s.current_y,
                                                      a.rx, a.ry, a.x_rotation,
                                                      a.large_arc, a.sweep, a.x, a.y),
                              !.current_x = a.x,
                              !.current_y = a.y], is_relative)

\* Mutant: the closing line is never added.
NeedsClosingLine_Never(cx, cy, sx, sy) == FALSE

\* Mutant: the current point is compared with the start exactly.
NeedsClosingLine_Exact(cx, cy, sx, sy) == cx # sx \/ cy # sy

\* The tolerance test of 'Z' (lines 334-335): 0.001 source units is Res / 1000.
NeedsClosingLine(cx, cy, sx, sy) ==
    Abs(cx - sx) > Res \div 1000 \/ Abs(cy - sy) > Res \div 1000

\* Mutant: Z leaves the current point where the last segment ended.
ClosePath_KeepCurrent(s) ==
    LET closing == IF NeedsClosingLine(s.current_x, s.current_y,
                                       s.subpath_start_x, s.subpath_start_y)
                   THEN <<Line(s.subpath_start_x, s.subpath_start_y)>>
                   ELSE <<>>
        flushed ==
            IF s.has_start /\ s.current_segments # <<>>
            THEN [s EXCEPT !.subpaths =
                              Append(@, build_subpath(s.subpath_start_x,
                                                      s.subpath_start_y,
                                                      s.current_segments \o closing,
                                                      TRUE)),
                           !.current_segments = <<>>]
            ELSE s
    IN [flushed EXCEPT !.has_start = FALSE]

ClosePath(s) ==
    LET closing == IF NeedsClosingLine(s.current_x, s.current_y,
                                       s.subpath_start_x, s.subpath_start_y)
                   THEN <<Line(s.subpath_start_x, s.subpath_start_y)>>
                   ELSE <<>>
        flushed ==
            IF s.has_start /\ s.current_segments # <<>>
            THEN [s EXCEPT !.subpaths =
                              Append(@, build_subpath(s.subpath_start_x,
                                                      s.subpath_start_y,
                                                      s.current_segments \o closing,
                                                      TRUE)),
                           !.current_segments = <<>>]
            ELSE s
    IN [flushed EXCEPT !.current_x = s.subpath_start_x,
                       !.current_y = s.subpath_start_y,
                       !.has_start = FALSE]

(***************************************************************************)
(* tokenize (lines 499-604).  One step per iteration of the main loop: a   *)
(* separator, a command letter, a whole numeric literal, or a character    *)
(* that starts none of them.                                               *)
(***************************************************************************)
\* Mutant: the carriage return is not among the separators.
Separators_NoCR == {" ", "\t", "\n", ","}

Separators == {" ", "\t", "\n", "\r", ","}
Digits == {"0", "1", "2", "3", "4", "5", "6", "7", "8", "9"}
Signs == {"-", "+"}
NumberStart == Signs \cup {"."} \cup Digits
ExponentMarks == {"e", "E"}

\* chars.peek() at position p of the character sequence t.
PeekIn(t, p, set) == p < Len(t) /\ t[p + 1] \in set

\* The position after the run of ASCII digits of t that starts at p.
RECURSIVE SkipDigits(_, _)
SkipDigits(t, p) == IF PeekIn(t, p, Digits) THEN SkipDigits(t, p + 1) ELSE p

\* The position after the numeric literal of t that starts at p: sign,
\* integer part, decimal part, exponent part (lines 524-584).
AfterSign(t, p) == IF PeekIn(t, p, Signs) THEN p + 1 ELSE p
AfterDecimal(t, p) == IF PeekIn(t, p, {"."}) THEN SkipDigits(t, p + 1) ELSE p
AfterExponent(t, p) ==
    IF PeekIn(t, p, ExponentMarks) THEN SkipDigits(t, AfterSign(t, p + 1)) ELSE p
ScanNumber(t, p) == AfterExponent(t, AfterDecimal(t, SkipDigits(t, AfterSign(t, p))))

DigitValue(c) ==
    CASE c = "0" -> 0 [] c = "1" -> 1 [] c = "2" -> 2 [] c = "3" -> 3
      [] c = "4" -> 4 [] c = "5" -> 5 [] c = "6" -> 6 [] c = "7" -> 7
      [] c = "8" -> 8 [] c = "9" -> 9

\* The decimal value of the digits t[a + 1 .. b].
RECURSIVE DigitsValue(_, _, _)
DigitsValue(t, a, b) ==
    IF b <= a THEN 0 ELSE 10 * DigitsValue(t, a, b - 1) + DigitValue(t[b])

RECURSIVE Pow10(_)
Pow10(n) == IF n <= 0 THEN 1 ELSE 10 * Pow10(n - 1)

\* str::parse::<f64> on num_str: [sign] (digits [. digits] | . digits)
\* [e|E [sign] digits], the whole string; the value on the fixed-point grid.
parse_f64(num_str) ==
    LET n == Len(num_str)
        p1 == AfterSign(num_str, 0)
        p2 == SkipDigits(num_str, p1)
        hasDot == PeekIn(num_str, p2, {"."})
        f1 == IF hasDot THEN p2 + 1 ELSE p2
        p3 == SkipDigits(num_str, f1)
        hasExp == PeekIn(num_str, p3, ExponentMarks)
        e1 == IF hasExp THEN AfterSign(num_str, p3 + 1) ELSE p3
        p4 == SkipDigits(num_str, e1)
        negative == n > 0 /\ num_str[1] = "-"
        expNegative == hasExp /\ e1 = p3 + 2 /\ num_str[p3 + 2] = "-"
        mantissa == DigitsValue(num_str, p1, p2) * Pow10(p3 - f1)
                      + DigitsValue(num_str, f1, p3)
        exponent == (IF expNegative THEN -1 ELSE 1) * DigitsValue(num_str, e1, p4)
                      - (p3 - f1)
        magnitude == IF exponent >= 0
                     THEN mantissa * Pow10(exponent) * Res
                     ELSE RoundDiv(mantissa * Res, Pow10(-exponent))
    IN IF /\ p4 = n
          /\ (p2 > p1 \/ p3 > f1)
          /\ (hasExp => p4 > e1)
       THEN [ok |-> TRUE, value |-> IF negative THEN -magnitude ELSE magnitude]
       ELSE [ok |-> FALSE, value |-> 0]

AtChar(set) ==
    /\ pc = "tokenize"
    /\ ret.tag = "None"
    /\ PeekIn(d, pos, set)

LocalsIdle ==
    UNCHANGED <<config, i, subpaths, current_x, current_y, subpath_start_x,
                subpath_start_y, current_segments, has_start, last_control_x,
                last_control_y, last_command, svg, fcm, returned, other_call,
                app_vars>>

\* Whitespace and comma (lines 507-510).
TokSeparator ==
    /\ AtChar(Separators)
    /\ pos' = pos + 1
    /\ UNCHANGED <<d, pc, literals, tokens, ret>>
    /\ LocalsIdle

\* A command letter (lines 513-518).
TokCommand ==
    /\ AtChar(CommandLetters)
    /\ tokens' = Append(tokens, Command(d[pos + 1]))
    /\ pos' = pos + 1
    /\ UNCHANGED <<d, pc, literals, ret>>
    /\ LocalsIdle

\* A numeric literal (lines 521-592): the literal is consumed, then parsed;
\* the error carries the position after the literal.
TokNumber ==
    /\ AtChar(NumberStart)
    /\ LET end == ScanNumber(d, pos)
           num == parse_f64(SubSeq(d, pos + 1, end))
       IN /\ pos' = end
          /\ IF num.ok
             THEN /\ tokens' = Append(tokens, Number(num.value))
                  /\ ret' = ret
             ELSE /\ tokens' = tokens
                  /\ ret' = Err("Invalid number", end)
    /\ UNCHANGED <<d, pc, literals>>
    /\ LocalsIdle

\* Mutant: the error carries the number of tokens pushed so far.
TokUnexpected_TokenIndex ==
    /\ pc = "tokenize"
    /\ ret.tag = "None"
    /\ pos < Len(d)
    /\ d[pos + 1] \notin Separators \cup CommandLetters \cup NumberStart
    /\ ret' = Err("Unexpected character", Len(tokens))
    /\ UNCHANGED <<d, pos, pc, literals, tokens>>
    /\ LocalsIdle

\* Any other character (lines 594-599).
TokUnexpected ==
    /\ pc = "tokenize"
    /\ ret.tag = "None"
    /\ pos < Len(d)
    /\ d[pos + 1] \notin Separators \cup CommandLetters \cup NumberStart
    /\ ret' = Err("Unexpected character", pos)
    /\ UNCHANGED <<d, pos, pc, literals, tokens>>
    /\ LocalsIdle

\* The end of the string (line 603): Ok(tokens), and parse_to_subpaths goes
\* on to parse_tokens (line 111).
TokReturn ==
    /\ pc = "tokenize"
    /\ ret.tag = "None"
    /\ pos >= Len(d)
    /\ pc' = "parse_tokens"
    /\ UNCHANGED <<d, pos, literals, tokens, ret>>
    /\ LocalsIdle

(***************************************************************************)
(* Inputs.  A token sequence is a concatenation of at most MaxCmds command *)
(* groups (a command letter and its operands) of one palette, or one of    *)
(* the paths the documentation and the tests name.  Every sequence is one  *)
(* that tokenize can return: the 20 letters and numbers.                   *)
(***************************************************************************)
MaxCmds == 4

G(c, nums) == <<Command(c)>> \o [k \in 1..Len(nums) |-> Number(nums[k])]
\* Operands in whole source units.
Gpx(c, nums) == G(c, [k \in 1..Len(nums) |-> nums[k] * Res])
\* Operands in thousandths of a source unit.
Gmilli(c, nums) == G(c, [k \in 1..Len(nums) |-> nums[k] * (Res \div 1000)])

RECURSIVE Flatten(_)
Flatten(gs) == IF gs = <<>> THEN <<>> ELSE Head(gs) \o Flatten(Tail(gs))

\* Lines, close and a relative move after it.
PalRect ==
    {Gpx("M", <<0, 0>>), Gpx("L", <<100, 0>>), Gpx("L", <<100, 100>>),
     Gpx("L", <<0, 100>>), Gpx("Z", <<>>), Gpx("m", <<10, 10>>)}

\* Current points at 0, 1/1000 and 2/1000 of a source unit from the start.
PalTol ==
    {Gpx("M", <<0, 0>>), Gpx("L", <<10, 0>>), Gpx("L", <<0, 0>>),
     Gmilli("L", <<1, -1>>), Gmilli("L", <<0, 2>>), Gpx("z", <<>>)}

\* Move-to with further coordinate pairs, absolute and relative, and with a
\* dangling coordinate.
PalMove ==
    {Gpx("M", <<0, 0>>), Gpx("M", <<10, 10, 20, 10, 20, 20>>),
     Gpx("m", <<10, 0, 0, 10, -10, 0>>), Gpx("L", <<30, 30>>),
     Gpx("M", <<1, 2, 3>>), Gpx("Z", <<>>)}

\* Horizontal and vertical lines; numbers after a close.
PalHV ==
    {Gpx("M", <<0, 0>>), Gpx("H", <<10, 20>>), Gpx("h", <<5>>),
     Gpx("V", <<10>>), Gpx("v", <<-5, -5>>), Gpx("z", <<5, 5>>)}

\* Lines with one and two coordinate pairs, and H, V with one and two
\* numbers, absolute and relative, away from the origin.
PalLines ==
    {Gpx("M", <<3, 6>>), Gpx("L", <<10, 0, 20, 5>>), Gpx("l", <<5, 5, -5, 5>>),
     Gpx("H", <<9>>), Gpx("h", <<-2, 4>>), Gpx("V", <<1, 7>>)}

\* Smooth cubics after cubics, lines and closes.
PalSmooth ==
    {Gpx("M", <<0, 0>>), Gpx("C", <<10, 0, 20, 10, 20, 20>>),
     Gpx("S", <<40, 40, 40, 20>>), Gpx("s", <<10, 10, 20, 0>>),
     Gpx("L", <<50, 50>>), Gpx("Z", <<>>)}

\* Smooth cubics and quadratics after quadratics and arcs.
PalSmoothQuad ==
    {Gpx("M", <<3, 6>>), Gpx("S", <<40, 40, 40, 20>>), Gpx("T", <<30, 30>>),
     Gpx("Q", <<30, 0, 30, 30>>), Gpx("a", <<5, 5, 0, 0, 1, 20, 0>>),
     Gpx("c", <<3, 0, 6, 3, 6, 6>>)}

\* Smooth cubics after horizontal and vertical lines; two operand groups.
PalSmoothHV ==
    {Gpx("M", <<3, 6>>), Gpx("C", <<10, 0, 20, 10, 20, 20>>),
     Gpx("S", <<1, 1, 2, 2, 3, 3, 4, 4>>), Gpx("H", <<9>>), Gpx("v", <<6>>),
     Gpx("s", <<10, 10, 20, 0>>)}

\* Arcs with 1 to 4 operands.
PalArcShort ==
    {Gpx("M", <<0, 0>>), Gpx("A", <<10>>), Gpx("a", <<10, 10>>),
     Gpx("A", <<10, 10, 0>>), Gpx("A", <<10, 10, 0, 0>>), Gpx("L", <<5, 5>>)}

\* Arcs with 5 to 8 operands, and a zero radius.
PalArcLong ==
    {Gpx("M", <<0, 0>>), Gpx("A", <<10, 10, 0, 0, 1>>),
     Gpx("a", <<10, 10, 0, 0, 1, 20>>), Gpx("A", <<10, 10, 0, 0, 1, 20, 0>>),
     Gpx("A", <<10, 10, 0, 0, 0, 20, 0, 5>>), Gpx("A", <<0, 10, 0, 0, 1, 20, 20>>)}

\* Degenerate arcs: the endpoint on the current point (with and without a
\* zero radius), a zero radius, and two operand groups after one letter.
PalArcDegenerate ==
    {Gpx("M", <<0, 0>>), Gpx("a", <<5, 5, 0, 0, 1, 0, 0>>),
     Gpx("A", <<0, 0, 0, 0, 0, 0, 0>>), Gpx("a", <<0, 5, 0, 1, 0, 10, 0>>),
     Gpx("A", <<5, 0, 0, 0, 0, 20, 20, 10, 0, 0, 0, 1, 20, 20>>),
     Gpx("L", <<20, 20>>)}

\* Cubics with one and two operand groups, absolute and relative.
PalCubic ==
    {Gpx("M", <<0, 0>>), Gpx("C", <<10, 0, 20, 10, 20, 20, 30, 20, 40, 30, 40, 40>>),
     Gpx("c", <<3, 0, 6, 3, 6, 6, 1, 0, 2, 1, 2, 2>>), Gpx("c", <<3, 0, 6, 3, 6, 6>>),
     Gpx("L", <<5, 5>>), Gpx("Z", <<>>)}

\* Cubics with 1 to 8 operands.
PalCubicShort ==
    {Gpx("M", <<0, 0>>), Gpx("C", <<1>>), Gpx("c", <<1, 2, 3>>),
     Gpx("C", <<1, 2, 3, 4, 5>>), Gpx("C", <<1, 2, 3, 4, 5, 6>>),
     Gpx("c", <<1, 2, 3, 4, 5, 6, 7, 8>>)}

\* Smooth cubics with 1 to 6 operands.
PalSmoothShort ==
    {Gpx("M", <<0, 0>>), Gpx("S", <<1, 2, 3>>), Gpx("s", <<1>>),
     Gpx("S", <<1, 2, 3, 4, 5, 6>>), Gpx("s", <<1, 2, 3, 4>>), Gpx("Z", <<>>)}

\* Quadratics and smooth quadratics with one and two operand groups.
PalQuad ==
    {Gpx("M", <<3, 6>>), Gpx("Q", <<30, 0, 30, 30, 30, 60, 0, 60>>),
     Gpx("q", <<3, 3, 6, 0>>), Gpx("T", <<9, 9, 12, 3>>), Gpx("t", <<3, 3>>),
     Gpx("L", <<6, 6>>)}

\* Quadratics with 1 to 6 operands.
PalQuadShort ==
    {Gpx("M", <<0, 0>>), Gpx("Q", <<3>>), Gpx("q", <<3, 6, 9>>),
     Gpx("Q", <<3, 6, 9, 12>>), Gpx("q", <<3, 6, 9, 12, 15, 18>>),
     Gpx("Z", <<>>)}

\* Smooth quadratics with 1 to 3 operands.
PalSmoothQuadShort ==
    {Gpx("M", <<0, 0>>), Gpx("T", <<3>>), Gpx("t", <<3, 6, 9>>),
     Gpx("T", <<3, 6>>), Gpx("Q", <<3, 6, 9, 12>>), Gpx("Z", <<>>)}

Palettes ==
    {PalRect, PalTol, PalMove, PalHV, PalLines, PalSmooth, PalSmoothQuad,
     PalSmoothHV, PalArcShort, PalArcLong, PalArcDegenerate, PalCubic,
     PalCubicShort, PalSmoothShort, PalQuad, PalQuadShort, PalSmoothQuadShort}

\* "M 0,0 L 100,0 L 100,100 L 0,100 Z" (tests::test_simple_rect).
RectPath ==
    Flatten(<<Gpx("M", <<0, 0>>), Gpx("L", <<100, 0>>), Gpx("L", <<100, 100>>),
              Gpx("L", <<0, 100>>), Gpx("Z", <<>>)>>)
\* "M 0,0 l 100,0 l 0,100 l -100,0 z" (tests::test_relative_commands).
RelativeRectPath ==
    Flatten(<<Gpx("M", <<0, 0>>), Gpx("l", <<100, 0>>), Gpx("l", <<0, 100>>),
              Gpx("l", <<-100, 0>>), Gpx("z", <<>>)>>)
\* "M 0,0 C 50,0 50,100 100,100" (tests::test_bezier_curve).
BezierPath ==
    Flatten(<<Gpx("M", <<0, 0>>), Gpx("C", <<50, 0, 50, 100, 100, 100>>)>>)
\* "M 0,0 C 10,0 20,10 20,20 S 40,40 40,20".
SmoothPath ==
    Flatten(<<Gpx("M", <<0, 0>>), Gpx("C", <<10, 0, 20, 10, 20, 20>>),
              Gpx("S", <<40, 40, 40, 20>>)>>)
\* "M 0,0 L 10,0 L 0,0 Z".
BackToStartPath ==
    Flatten(<<Gpx("M", <<0, 0>>), Gpx("L", <<10, 0>>), Gpx("L", <<0, 0>>),
              Gpx("Z", <<>>)>>)

Examples == {RectPath, RelativeRectPath, BezierPath, SmoothPath, BackToStartPath}

(***************************************************************************)
(* The relative form of a path: every command letter in lower case, every  *)
(* coordinate of an upper-case command rewritten as its difference from    *)
(* the current point at its operand group (H: x only, V: y only, A: the    *)
(* endpoint only).  The current point is read off the path itself: the     *)
(* last coordinate pair before the group, or after Z the first pair of the *)
(* last M.  Numbers that complete no group are copied.                     *)
(***************************************************************************)
GroupSize(c) ==
    CASE c \in {"M", "m", "L", "l", "T", "t"} -> 2
      [] c \in {"H", "h", "V", "v"} -> 1
      [] c \in {"C", "c"} -> 6
      [] c \in {"S", "s", "Q", "q"} -> 4
      [] c \in {"A", "a"} -> 7

\* Operand j of a group of command c is an x (1), a y (2) or no coordinate (0).
Axis(c, j) ==
    CASE c \in {"H", "h"} -> 1
      [] c \in {"V", "v"} -> 2
      [] c \in {"A", "a"} -> (IF j = 6 THEN 1 ELSE IF j = 7 THEN 2 ELSE 0)
      [] OTHER -> (IF j % 2 = 1 THEN 1 ELSE 2)

RECURSIVE NumbersAfter(_, _)
NumbersAfter(t, k) ==
    IF k < Len(t) /\ t[k + 1].type = "Number" THEN 1 + NumbersAfter(t, k + 1) ELSE 0

\* m groups of command c from token p on; at is the current point.
RECURSIVE RelativeGroups(_, _, _, _, _)
RelativeGroups(t, p, m, c, at) ==
    IF m = 0 THEN [ops |-> <<>>, at |-> at]
    ELSE LET g == GroupSize(c)
             lower == c \in LowerLetters
             Delta(j) == IF lower \/ Axis(c, j) = 0 THEN t[p + j - 1].num
                         ELSE IF Axis(c, j) = 1 THEN t[p + j - 1].num - at.x
                         ELSE t[p + j - 1].num - at.y
             End(j) == IF lower
                       THEN (IF Axis(c, j) = 1 THEN at.x ELSE at.y) + t[p + j - 1].num
                       ELSE t[p + j - 1].num
             next == [x |-> IF c \in {"V", "v"} THEN at.x
                            ELSE IF g = 1 THEN End(1) ELSE End(g - 1),
                      y |-> IF c \in {"H", "h"} THEN at.y ELSE End(g)]
             rest == RelativeGroups(t, p + g, m - 1, c, next)
         IN [ops |-> [j \in 1..g |-> Number(Delta(j))] \o rest.ops, at |-> rest.at]

\* The tokens from k on; at is the current point and start the subpath start.
RECURSIVE RelativeFrom(_, _, _, _)
RelativeFrom(t, k, at, start) ==
    IF k > Len(t) THEN <<>>
    ELSE IF t[k].type = "Number" THEN SubSeq(t, k, Len(t))
    ELSE LET c == t[k].cmd
             letter == <<Command(IF c \in LowerLetters THEN c
                                 ELSE CHOOSE l \in LowerLetters :
                                         to_ascii_uppercase(l) = c)>>
         IN IF c \in {"Z", "z"}
            THEN letter \o RelativeFrom(t, k + 1, start, start)
            ELSE LET n == NumbersAfter(t, k)
                     m == n \div GroupSize(c)
                     gs == RelativeGroups(t, k + 1, m, c, at)
                     first == RelativeGroups(t, k + 1, 1, c, at).at
                 IN letter \o gs.ops
                      \o SubSeq(t, k + 1 + m * GroupSize(c), k + n)
                      \o RelativeFrom(t, k + 1 + n, gs.at,
                                      IF c \in {"M", "m"} /\ m >= 1 THEN first
                                      ELSE start)

RelativeForm(t) == RelativeFrom(t, 1, [x |-> 0, y |-> 0], [x |-> 0, y |-> 0])

\* tokens is an input: a named path, or the groups gs of one palette in a row.
IsInput(t) ==
    \/ t \in Examples
    \/ \E P \in Palettes, n \in 0..MaxCmds :
          \E gs \in [1..n -> P] : t = Flatten(gs)

(***************************************************************************)
(* Path strings.  A string is written from at most MaxLiterals literals of *)
(* one palette: command letters, separators, numeric literals with the     *)
(* value they denote (in 1/Res source units), and texts that are none of   *)
(* these (a character outside the grammar, a malformed number).            *)
(***************************************************************************)
MaxLiterals == 4

Cmd(c) == [kind |-> "command", text |-> <<c>>, value |-> 0]
Sep(c) == [kind |-> "separator", text |-> <<c>>, value |-> 0]
Num(text, value) == [kind |-> "number", text |-> text, value |-> value]
Other(text) == [kind |-> "other", text |-> text, value |-> 0]

\* Numbers that abut: "10-5", "1.5.5", "-5+2".
TextAbut ==
    {Num(<<"1", "0">>, 10 * Res), Num(<<"-", "5">>, -5 * Res),
     Num(<<".", "5">>, Res \div 2), Num(<<"1", ".", "5">>, (3 * Res) \div 2),
     Num(<<"+", "2">>, 2 * Res), Sep(" "), Cmd("M")}

\* The five separators.
TextSeparators ==
    {Cmd("M"), Num(<<"1">>, Res), Sep(" "), Sep(","), Sep("\t"), Sep("\n"),
     Sep("\r")}

\* Exponents and a trailing point.
TextExponent ==
    {Num(<<"1", "e", "1">>, 10 * Res), Num(<<"2", "e", "-", "1">>, Res \div 5),
     Num(<<"1", "E", "+", "1">>, 10 * Res), Num(<<"-", "3">>, -3 * Res),
     Num(<<"2", ".">>, 2 * Res), Sep(","), Cmd("h")}

\* An exponent mark outside a number, and the remaining command letters.
TextLetters ==
    {Other(<<"e">>), Num(<<"3">>, 3 * Res), Sep(" "), Cmd("V"), Cmd("C"),
     Cmd("S"), Cmd("q"), Cmd("T")}

\* Fractions, signs before the point, thousandths.
TextFraction ==
    {Num(<<"0">>, 0), Num(<<"-", ".", "5">>, -(Res \div 2)),
     Num(<<"+", "1", ".", "2", "5">>, (5 * Res) \div 4),
     Num(<<"1", "0", "0">>, 100 * Res),
     Num(<<".", "0", "0", "1">>, Res \div 1000), Cmd("L"), Cmd("a")}

\* Characters outside the grammar and malformed numbers.
TextOther ==
    {Other(<<"#">>), Other(<<"-">>), Other(<<".">>), Other(<<"1", "e">>),
     Num(<<"7">>, 7 * Res), Cmd("Z"), Sep(" ")}

TextPalettes ==
    {TextAbut, TextSeparators, TextExponent, TextFraction, TextOther, TextLetters}

\* The 20 command letters in a row.
AllLettersText ==
    <<Cmd("M"), Cmd("m"), Cmd("L"), Cmd("l"), Cmd("H"), Cmd("h"), Cmd("V"),
      Cmd("v"), Cmd("C"), Cmd("c"), Cmd("S"), Cmd("s"), Cmd("Q"), Cmd("q"),
      Cmd("T"), Cmd("t"), Cmd("A"), Cmd("a"), Cmd("Z"), Cmd("z")>>
\* "M1,2".
AbutCommandText == <<Cmd("M"), Num(<<"1">>, Res), Sep(","), Num(<<"2">>, 2 * Res)>>
\* "M 0,0 L 100,0 L 100,100 L 0,100 Z".
RectText ==
    <<Cmd("M"), Sep(" "), Num(<<"0">>, 0), Sep(","), Num(<<"0">>, 0), Sep(" "),
      Cmd("L"), Sep(" "), Num(<<"1", "0", "0">>, 100 * Res), Sep(","),
      Num(<<"0">>, 0), Sep(" "),
      Cmd("L"), Sep(" "), Num(<<"1", "0", "0">>, 100 * Res), Sep(","),
      Num(<<"1", "0", "0">>, 100 * Res), Sep(" "),
      Cmd("L"), Sep(" "), Num(<<"0">>, 0), Sep(","),
      Num(<<"1", "0", "0">>, 100 * Res), Sep(" "), Cmd("Z")>>

\* "M0,0L5,5Z7 7".
NumbersAfterCloseText ==
    <<Cmd("M"), Num(<<"0">>, 0), Sep(","), Num(<<"0">>, 0), Cmd("L"),
      Num(<<"5">>, 5 * Res), Sep(","), Num(<<"5">>, 5 * Res), Cmd("Z"),
      Num(<<"7">>, 7 * Res), Sep(" "), Num(<<"7">>, 7 * Res)>>

\* A numeric literal that starts with a digit does not directly follow a
\* number or a malformed number: the digits would run on into one literal
\* ("100100100100", "1e11") whose value leaves the range of the fixed point.
DigitsStartFresh(ls) ==
    \A k \in 1..(Len(ls) - 1) :
       (ls[k].kind \in {"number", "other"} /\ ls[k + 1].kind = "number")
       => ls[k + 1].text[1] \notin {"0", "1", "2", "3", "4", "5", "6", "7", "8", "9"}

IsLiteralInput(ls) ==
    \/ ls \in {AllLettersText, AbutCommandText, RectText, NumbersAfterCloseText}
    \/ \E P \in TextPalettes, n \in 0..MaxLiterals :
          \E f \in [1..n -> P] : DigitsStartFresh(f) /\ ls = SubSeq(f, 1, n)

RECURSIVE TextOf(_)
TextOf(ls) == IF ls = <<>> THEN <<>> ELSE Head(ls).text \o TextOf(Tail(ls))

(***************************************************************************)
(* parse_tokens as a state machine: one step per iteration of the outer    *)
(* loop (a command with all its operand groups, or a bare number), and one *)
(* for the flush after the loop.                                           *)
(***************************************************************************)
\* The locals of parse_tokens at its entry (lines 115-128).
InitLocals ==
    /\ i = 0
    /\ subpaths = <<>>
    /\ current_x = 0
    /\ current_y = 0
    /\ subpath_start_x = 0
    /\ subpath_start_y = 0
    /\ current_segments = <<>>
    /\ has_start = FALSE
    /\ last_control_x = 0
    /\ last_control_y = 0
    /\ last_command = " "
    /\ ret = NoReturn

\* No page, no marks and no conversion routine.
NoPage == [width_mm |-> 0, height_mm |-> 0]
NoFile == [tag |-> "None"]
NoCaller ==
    /\ page = NoPage
    /\ marks = <<>>
    /\ file = NoFile
    /\ caller = "none"
    /\ NoThumbnail

\* No conversion is called directly, no earlier call has returned, no second
\* call is under way and the parser was called directly.
NoCalls ==
    /\ svg = [x |-> 0, y |-> 0]
    /\ fcm = <<>>
    /\ returned = <<>>
    /\ other_call = NoCall
    /\ NoCaller

\* parse_tokens called on a token sequence, by a parser with the default
\* configuration.
Init ==
    /\ IsInput(tokens)
    /\ config = SvgConfig_default
    /\ d = <<>>
    /\ pos = 0
    /\ pc = "parse_tokens"
    /\ literals = <<>>
    /\ InitLocals
    /\ NoCalls

Running == pc = "parse_tokens" /\ ret.tag = "None"

AtCommand(letter) ==
    /\ Running
    /\ i < Len(tokens)
    /\ tokens[i + 1].type = "Command"
    /\ to_ascii_uppercase(tokens[i + 1].cmd) = letter

is_relative == is_lowercase(tokens[i + 1].cmd)

\* i += 1 before the arm (line 136); last_command = cmd_upper after an arm
\* that returned no error (line 365).
Entered == [Locals EXCEPT !.i = @ + 1]
Executed(s, letter) ==
    IF s.ret.tag = "None" THEN [s EXCEPT !.last_command = letter] ELSE s

CmdM == AtCommand("M") /\ Commit(Executed(MoveTo(Entered, is_relative), "M"))
CmdL == AtCommand("L") /\ Commit(Executed(LineToLoop(Entered, is_relative), "L"))
CmdH == AtCommand("H") /\ Commit(Executed(HorizontalLoop(Entered, is_relative), "H"))
CmdV == AtCommand("V") /\ Commit(Executed(VerticalLoop(Entered, is_relative), "V"))
CmdC == AtCommand("C") /\ Commit(Executed(CubicLoop(Entered, is_relative), "C"))
CmdS == AtCommand("S") /\ Commit(Executed(SmoothCubicLoop(Entered, is_relative), "S"))
CmdQ == AtCommand("Q") /\ Commit(Executed(QuadraticLoop(Entered, is_relative), "Q"))
CmdT == AtCommand("T") /\ Commit(Executed(SmoothQuadLoop(Entered, is_relative), "T"))
CmdA == AtCommand("A") /\ Commit(Executed(ArcLoop(Entered, is_relative), "A"))
CmdZ == AtCommand("Z") /\ Commit(Executed(ClosePath(Entered), "Z"))

\* Mutant: the error carries position 0, as those of read_number do.
BareNumber_PositionZero ==
    /\ Running
    /\ i < Len(tokens)
    /\ tokens[i + 1].type = "Number"
    /\ Commit(Fail(Locals, Err("Unexpected number without command", 0)))

\* Token::Number in the outer loop (lines 368-373).
BareNumber ==
    /\ Running
    /\ i < Len(tokens)
    /\ tokens[i + 1].type = "Number"
    /\ Commit(Fail(Locals, Err("Unexpected number without command", i)))

\* Mutant: an open subpath is flushed at the end whatever it holds.
FlushAtEnd_Always(s) ==
    IF s.has_start
    THEN [s EXCEPT !.subpaths =
                      Append(@, build_subpath(s.subpath_start_x, s.subpath_start_y,
                                              s.current_segments, FALSE))]
    ELSE s

\* Mutant: the subpath open at the end of the input is emitted closed.
FlushAtEnd_Closed(s) ==
    IF s.has_start /\ s.current_segments # <<>>
    THEN [s EXCEPT !.subpaths =
                      Append(@, build_subpath(s.subpath_start_x, s.subpath_start_y,
                                              s.current_segments, TRUE))]
    ELSE s

\* After the loop (lines 377-387): flush an open subpath unclosed, return.
FlushAtEnd(s) ==
    IF s.has_start /\ s.current_segments # <<>>
    THEN [s EXCEPT !.subpaths =
                      Append(@, build_subpath(s.subpath_start_x, s.subpath_start_y,
                                              s.current_segments, FALSE))]
    ELSE s

Finish ==
    /\ Running
    /\ i >= Len(tokens)
    /\ LET s == FlushAtEnd(Locals) IN Commit([s EXCEPT !.ret = Ok(s.subpaths)])

Next ==
    \/ CmdM \/ CmdL \/ CmdH \/ CmdV \/ CmdC \/ CmdS \/ CmdQ \/ CmdT \/ CmdA
    \/ CmdZ \/ BareNumber \/ Finish

Spec == Init /\ [][Next]_vars

(***************************************************************************)
(* The same path parsed twice: as given, then in its relative form.  When  *)
(* the first call has returned, the caller keeps its result and calls      *)
(* parse_tokens again.                                                     *)
(***************************************************************************)
ParseRelativeForm ==
    /\ pc = "parse_tokens"
    /\ ret.tag # "None"
    /\ returned = <<>>
    /\ returned' = <<ret>>
    /\ tokens' = RelativeForm(tokens)
    /\ i' = 0
    /\ subpaths' = <<>>
    /\ current_x' = 0
    /\ current_y' = 0
    /\ subpath_start_x' = 0
    /\ subpath_start_y' = 0
    /\ current_segments' = <<>>
    /\ has_start' = FALSE
    /\ last_control_x' = 0
    /\ last_control_y' = 0
    /\ last_command' = " "
    /\ ret' = NoReturn
    /\ UNCHANGED <<config, d, pos, pc, literals, svg, fcm, other_call,
                   app_vars>>

\* The paths parsed twice: the named ones and those of seven palettes that
\* between them hold every command in both cases.
RelativePalettes ==
    {PalRect, PalHV, PalLines, PalSmoothQuad, PalArcDegenerate, PalCubic,
     PalQuad}

InitRelative ==
    /\ \/ tokens \in Examples
       \/ \E P \in RelativePalettes, n \in 0..MaxCmds :
             \E gs \in [1..n -> P] : tokens = Flatten(gs)
    /\ config = SvgConfig_default
    /\ d = <<>>
    /\ pos = 0
    /\ pc = "parse_tokens"
    /\ literals = <<>>
    /\ InitLocals
    /\ NoCalls

NextRelative == Next \/ ParseRelativeForm

SpecRelative == InitRelative /\ [][NextRelative]_vars

(***************************************************************************)
(* tokenize alone, on a path string.                                       *)
(***************************************************************************)
InitTokenize ==
    /\ IsLiteralInput(literals)
    /\ config = SvgConfig_default
    /\ NoCalls
    /\ d = TextOf(literals)
    /\ pos = 0
    /\ pc = "tokenize"
    /\ tokens = <<>>
    /\ InitLocals

NextTokenize ==
    TokSeparator \/ TokCommand \/ TokNumber \/ TokUnexpected \/ TokReturn

SpecTokenize == InitTokenize /\ [][NextTokenize]_vars

(***************************************************************************)
(* parse_to_subpaths on a path string (lines 109-112): tokenize, and when  *)
(* it returned Ok, parse_tokens on its tokens.                             *)
(***************************************************************************)
NextParse == NextTokenize \/ Next

SpecParse == InitTokenize /\ [][NextParse]_vars

(***************************************************************************)
(* parse_to_subpaths called again on the same parser.  &self is shared and *)
(* never written; every call builds its tokens (line 110) and the locals   *)
(* of parse_tokens (lines 115-127) anew.  The first call is on the string  *)
(* that literals describes; when a call has returned, the caller keeps the *)
(* result in returned and calls again, once on another string or on the    *)
(* first one, and after another string on the first one.                   *)
(***************************************************************************)
\* The string of a call in between, "M0,0L5,5Z7 7": it has flushed a subpath
\* when it fails.
EarlierTexts == {TextOf(NumbersAfterCloseText)}

\* "M0,0L5,5H7V7C1,1 2,2 3,3S4,4 5,5Q6,6 7,7T8,8A1,1 0 0 1 6,8Z": every
\* command, each with its operands.
EveryCommandText ==
    LET n(c, v) == Num(<<c>>, v * Res)
    IN <<Cmd("M"), n("0", 0), Sep(","), n("0", 0),
         Cmd("L"), n("5", 5), Sep(","), n("5", 5),
         Cmd("H"), n("7", 7), Cmd("V"), n("7", 7),
         Cmd("C"), n("1", 1), Sep(","), n("1", 1), Sep(" "), n("2", 2), Sep(","),
         n("2", 2), Sep(" "), n("3", 3), Sep(","), n("3", 3),
         Cmd("S"), n("4", 4), Sep(","), n("4", 4), Sep(" "), n("5", 5), Sep(","),
         n("5", 5),
         Cmd("Q"), n("6", 6), Sep(","), n("6", 6), Sep(" "), n("7", 7), Sep(","),
         n("7", 7),
         Cmd("T"), n("8", 8), Sep(","), n("8", 8),
         Cmd("A"), n("1", 1), Sep(","), n("1", 1), Sep(" "), n("0", 0), Sep(" "),
         n("0", 0), Sep(" "), n("1", 1), Sep(" "), n("6", 6), Sep(","), n("8", 8),
         Cmd("Z")>>

\* Mutant: the locals of the call before are those of the new call.
ParseAgain_KeepLocals ==
    /\ pc \in {"tokenize", "parse_tokens"}
    /\ ret.tag # "None"
    /\ \/ returned = <<>> /\ d' \in {d} \cup EarlierTexts
       \/ Len(returned) = 1 /\ d # TextOf(literals) /\ d' = TextOf(literals)
    /\ returned' = Append(returned, ret)
    /\ pos' = 0
    /\ pc' = "tokenize"
    /\ tokens' = <<>>
    /\ i' = 0
    /\ ret' = NoReturn
    /\ UNCHANGED <<config, literals, svg, fcm, subpaths, current_x, current_y,
                   subpath_start_x, subpath_start_y, current_segments,
                   has_start, last_control_x, last_control_y, last_command,
                   other_call, app_vars>>

ParseAgain ==
    /\ pc \in {"tokenize", "parse_tokens"}
    /\ ret.tag # "None"
    /\ \/ returned = <<>> /\ d' \in {d} \cup EarlierTexts
       \/ Len(returned) = 1 /\ d # TextOf(literals) /\ d' = TextOf(literals)
    /\ returned' = Append(returned, ret)
    /\ pos' = 0
    /\ pc' = "tokenize"
    /\ tokens' = <<>>
    /\ i' = 0
    /\ subpaths' = <<>>
    /\ current_x' = 0
    /\ current_y' = 0
    /\ subpath_start_x' = 0
    /\ subpath_start_y' = 0
    /\ current_segments' = <<>>
    /\ has_start' = FALSE
    /\ last_control_x' = 0
    /\ last_control_y' = 0
    /\ last_command' = " "
    /\ ret' = NoReturn
    /\ UNCHANGED <<config, literals, svg, fcm, other_call, app_vars>>

\* The strings called on twice: the named ones and those of two palettes.
AgainPalettes == {TextLetters, TextOther}

InitAgain ==
    /\ \/ literals \in {AllLettersText, AbutCommandText, RectText,
                        NumbersAfterCloseText, EveryCommandText}
       \/ \E P \in AgainPalettes, n \in 0..MaxLiterals :
             \E f \in [1..n -> P] :
                DigitsStartFresh(f) /\ literals = SubSeq(f, 1, n)
    /\ config = SvgConfig_default
    /\ NoCalls
    /\ d = TextOf(literals)
    /\ pos = 0
    /\ pc = "tokenize"
    /\ tokens = <<>>
    /\ InitLocals

NextAgain == NextParse \/ ParseAgain

SpecAgain == InitAgain /\ [][NextAgain]_vars

(***************************************************************************)
(* Two calls of parse_tokens on one parser, on two threads.  The caller    *)
(* first runs each call alone and keeps the results in returned: call 1 on *)
(* the tokens of Init, then call 2 on other tokens.  Then it starts both   *)
(* calls again and the scheduler interleaves their steps: the variables    *)
(* i..ret are the locals of the thread that steps, other_call holds the    *)
(* frame of the thread that waits, and Switch hands the processor over.    *)
(* &self is the only thing the two calls share, and no step writes it.     *)
(***************************************************************************)
\* The tokens of call 2: "M 0,0 C 10,0 20,10 20,20 S 40,40 40,20".
OtherInputs == {SmoothPath}

\* The tokens of EveryCommandText.
EveryCommandPath ==
    Flatten(<<Gpx("M", <<0, 0>>), Gpx("L", <<5, 5>>), Gpx("H", <<7>>),
              Gpx("V", <<7>>), Gpx("C", <<1, 1, 2, 2, 3, 3>>),
              Gpx("S", <<4, 4, 5, 5>>), Gpx("Q", <<6, 6, 7, 7>>),
              Gpx("T", <<8, 8>>), Gpx("A", <<1, 1, 0, 0, 1, 6, 8>>),
              Gpx("Z", <<>>)>>)
\* The tokens of NumbersAfterCloseText.
NumbersAfterClosePath ==
    Flatten(<<Gpx("M", <<0, 0>>), Gpx("L", <<5, 5>>), Gpx("Z", <<7, 7>>)>>)

InitInterleaved ==
    /\ \/ tokens \in Examples \cup {EveryCommandPath, NumbersAfterClosePath}
       \/ \E n \in 0..MaxCmds : \E gs \in [1..n -> PalSmooth] : tokens = Flatten(gs)
    /\ config = SvgConfig_default
    /\ d = <<>>
    /\ pos = 0
    /\ pc = "parse_tokens"
    /\ literals = <<>>
    /\ InitLocals
    /\ NoCalls

\* Mutant: the reflection state is a field of the parser, the same for both
\* calls.
Resume_SharedReflection(s) ==
    /\ i' = s.i
    /\ subpaths' = s.subpaths
    /\ current_x' = s.current_x
    /\ current_y' = s.current_y
    /\ subpath_start_x' = s.subpath_start_x
    /\ subpath_start_y' = s.subpath_start_y
    /\ current_segments' = s.current_segments
    /\ has_start' = s.has_start
    /\ ret' = s.ret
    /\ UNCHANGED <<last_control_x, last_control_y, last_command>>

\* The locals of the thread that steps become those of the record s.
Resume(s) ==
    /\ i' = s.i
    /\ subpaths' = s.subpaths
    /\ current_x' = s.current_x
    /\ current_y' = s.current_y
    /\ subpath_start_x' = s.subpath_start_x
    /\ subpath_start_y' = s.subpath_start_y
    /\ current_segments' = s.current_segments
    /\ has_start' = s.has_start
    /\ last_control_x' = s.last_control_x
    /\ last_control_y' = s.last_control_y
    /\ last_command' = s.last_command
    /\ ret' = s.ret

\* Call 1 has returned alone: call 2 runs alone, and the tokens of call 1
\* wait for the run of both.
CallAlone ==
    /\ pc = "parse_tokens"
    /\ ret.tag # "None"
    /\ returned = <<>>
    /\ returned' = <<ret>>
    /\ other_call' = Frame(1, tokens)
    /\ tokens' \in OtherInputs
    /\ Resume(EntryLocals)
    /\ UNCHANGED <<config, d, pos, pc, literals, svg, fcm, app_vars>>

\* Call 2 has returned alone: both calls start, call 2 on the thread that
\* steps.
CallTogether ==
    /\ pc = "parse_tokens"
    /\ ret.tag # "None"
    /\ Len(returned) = 1
    /\ other_call.call = 1
    /\ returned' = Append(returned, ret)
    /\ Resume(EntryLocals)
    /\ UNCHANGED <<config, d, pos, pc, literals, tokens, svg, fcm, other_call,
                   app_vars>>

\* The scheduler gives the processor to the other thread, between two
\* iterations of the outer loop of parse_tokens.
Switch ==
    /\ pc = "parse_tokens"
    /\ Len(returned) = 2
    /\ other_call' = [call |-> 3 - other_call.call, tokens |-> tokens,
                      locals |-> Locals]
    /\ tokens' = other_call.tokens
    /\ Resume(other_call.locals)
    /\ UNCHANGED <<config, d, pos, pc, literals, svg, fcm, returned, app_vars>>

NextInterleaved == Next \/ CallAlone \/ CallTogether \/ Switch

SpecInterleaved == InitInterleaved /\ [][NextInterleaved]_vars

(***************************************************************************)
(* The conversions called directly: to_fcm and point_to_fcm on an          *)
(* SvgConfig, at most MaxCalls times on the same point.  dpi is 72 or 96,  *)
(* scale 1 or 2; the offsets are 0, 1.999, -0.006, 2.5 and -1 mm.  The     *)
(* values are ones on which the f64 evaluation of the source and the exact *)
(* evaluation of the model round to the same integer; they include the     *)
(* halves 12 px at 96 dpi (317.5) and 1.8 px at 72 dpi (63.5).             *)
(***************************************************************************)
MaxCalls == 2

ConvertConfigs ==
    [dpi : {72, 96}, scale : {1, 2},
     offset_x_mm : {0, 1999, -6, 2500, -1000},
     offset_y_mm : {0, 1999, -6}]

ConvertValues ==
    {0, 96 * Res, 12 * Res, -12 * Res, (18 * Res) \div 10, -((18 * Res) \div 10),
     100 * Res, 50 * Res, Res, -Res, Res \div 1000}

InitConvert ==
    /\ config \in ConvertConfigs
    /\ svg \in [x : ConvertValues, y : {0, 12 * Res, -((18 * Res) \div 10)}]
    /\ fcm = <<>>
    /\ returned = <<>>
    /\ other_call = NoCall
    /\ NoCaller
    /\ pc = "convert"
    /\ d = <<>>
    /\ pos = 0
    /\ literals = <<>>
    /\ tokens = <<>>
    /\ InitLocals

ConvertIdle ==
    UNCHANGED <<config, d, pos, pc, literals, tokens, i, subpaths, current_x,
                current_y, subpath_start_x, subpath_start_y, current_segments,
                has_start, last_control_x, last_control_y, last_command, ret,
                svg, returned, other_call, app_vars>>

\* config.to_fcm(svg.x)
CallToFcm ==
    /\ pc = "convert"
    /\ Len(fcm) < MaxCalls
    /\ fcm' = Append(fcm, [fn |-> "to_fcm", x |-> to_fcm(svg.x), y |-> 0])
    /\ ConvertIdle

\* config.point_to_fcm(svg.x, svg.y)
CallPointToFcm ==
    /\ pc = "convert"
    /\ Len(fcm) < MaxCalls
    /\ LET point == point_to_fcm(svg.x, svg.y)
       IN fcm' = Append(fcm, [fn |-> "point_to_fcm", x |-> point.x, y |-> point.y])
    /\ ConvertIdle

NextConvert == CallToFcm \/ CallPointToFcm

SpecConvert == InitConvert /\ [][NextConvert]_vars

(***************************************************************************)
(* Registration marks (registration_marks.rs).  Millimetres are kept in    *)
(* thousandths: a PageSize is [width_mm, height_mm], a MarkPosition        *)
(* [x_mm, y_mm], a Point [x, y] in native units (hundredths of a           *)
(* millimetre).  The page sizes are the four named ones, 5 x 7 inches      *)
(* (sticker_sheet.rs) and custom ones, with pages smaller than the insets  *)
(* and positions that fall on half a native unit (100.005 - 12 = 88.005 mm,*)
(* 5.005 - 13.98 = -8.975 mm); on all of them the f64 evaluation of the    *)
(* source and the exact one of the model round to the same integer.        *)
(***************************************************************************)
X_INSET_MM == 12000
Y_INSET_MM == 13980

PageSize(width_mm, height_mm) == [width_mm |-> width_mm, height_mm |-> height_mm]
LETTER == PageSize(215900, 279400)
A4 == PageSize(210000, 297000)
SQUARE_12 == PageSize(304800, 304800)
LONG_12X24 == PageSize(304800, 609600)
\* PageSize::new(127.0, 177.8)
StickerSheet == PageSize(127000, 177800)

PageSizes ==
    {LETTER, A4, SQUARE_12, LONG_12X24, StickerSheet}
    \cup [width_mm : {0, 5000, 12000, 24000, 100004, 100005, 215900},
          height_mm : {5005, 13980, 27960, 100004, 100006, 279400}]

MarkPosition(x_mm, y_mm) == [x_mm |-> x_mm, y_mm |-> y_mm]

\* MarkPosition::to_fcm_point: (mm * 100.0).round() as i32.
to_fcm_point(position) ==
    [x |-> RoundDiv(position.x_mm, 10), y |-> RoundDiv(position.y_mm, 10)]

\* Mutant: the bottom marks are in the order left, right.
calculate_mark_positions_RowOrder(p) ==
    <<MarkPosition(X_INSET_MM, Y_INSET_MM),
      MarkPosition(p.width_mm - X_INSET_MM, Y_INSET_MM),
      MarkPosition(X_INSET_MM, p.height_mm - Y_INSET_MM),
      MarkPosition(p.width_mm - X_INSET_MM, p.height_mm - Y_INSET_MM)>>

calculate_mark_positions(p) ==
    <<MarkPosition(X_INSET_MM, Y_INSET_MM),
      MarkPosition(p.width_mm - X_INSET_MM, Y_INSET_MM),
      MarkPosition(p.width_mm - X_INSET_MM, p.height_mm - Y_INSET_MM),
      MarkPosition(X_INSET_MM, p.height_mm - Y_INSET_MM)>>

get_fcm_alignment_marks(p) ==
    LET positions == calculate_mark_positions(p)
    IN [k \in 1..Len(positions) |-> to_fcm_point(positions[k])]

InitMarks ==
    /\ page \in PageSizes
    /\ marks = <<>>
    /\ file = NoFile
    /\ caller = "none"
    /\ NoThumbnail
    /\ pc = "marks"
    /\ config = SvgConfig_default
    /\ svg = [x |-> 0, y |-> 0]
    /\ fcm = <<>>
    /\ returned = <<>>
    /\ other_call = NoCall
    /\ d = <<>>
    /\ pos = 0
    /\ literals = <<>>
    /\ tokens = <<>>
    /\ InitLocals

MarksIdle ==
    UNCHANGED <<config, d, pos, pc, literals, tokens, i, subpaths, current_x,
                current_y, subpath_start_x, subpath_start_y, current_segments,
                has_start, last_control_x, last_control_y, last_command, ret,
                svg, fcm, returned, other_call, page, file, caller,
                thumbnail_vars>>

\* calculate_mark_positions(&page)
CallCalculateMarkPositions ==
    /\ pc = "marks"
    /\ Len(marks) < MaxCalls
    /\ marks' = Append(marks, [fn |-> "calculate_mark_positions",
                               result |-> calculate_mark_positions(page)])
    /\ MarksIdle

\* get_fcm_alignment_marks(&page)
CallGetFcmAlignmentMarks ==
    /\ pc = "marks"
    /\ Len(marks) < MaxCalls
    /\ marks' = Append(marks, [fn |-> "get_fcm_alignment_marks",
                               result |-> get_fcm_alignment_marks(page)])
    /\ MarksIdle

NextMarks == CallCalculateMarkPositions \/ CallGetFcmAlignmentMarks

SpecMarks == InitMarks /\ [][NextMarks]_vars

(***************************************************************************)
(* The conversion routines of the examples: generate_fcm                   *)
(* (sticker_sheet.rs) and svg_to_print_and_cut_fcm (svg_to_fcm.rs).  Each  *)
(* builds an SvgConfig, calls parse on a path and builds one Piece and the *)
(* FcmFile around it.  An Option is a sequence of length 0 or 1.  An f32   *)
(* that holds half of an integer is kept doubled (center_x, center_y and   *)
(* the translation of the transform are in halves of a native unit).  The  *)
(* thumbnail bytes of generate_fcm are left out of the file.               *)
(***************************************************************************)
I32_MAX == 2147483647
I32_MIN == -I32_MAX - 1

\* a - b in i32.  overflow: the debug build panics; value: what the release
\* build computes (two's complement).
i32_sub(a, b) ==
    IF b > 0 /\ a < I32_MIN + b
    THEN [overflow |-> TRUE, value |-> ((a + I32_MAX) + 1) + ((I32_MAX - b) + 1)]
    ELSE IF b < 0 /\ a > I32_MAX + b
    THEN [overflow |-> TRUE, value |-> ((a - I32_MAX) - 1) - ((I32_MAX + b) + 1)]
    ELSE [overflow |-> FALSE, value |-> a - b]

\* a + b in i32.
i32_add(a, b) ==
    IF b > 0 /\ a > I32_MAX - b
    THEN [overflow |-> TRUE, value |-> ((a - I32_MAX) - 1) + ((b - I32_MAX) - 1)]
    ELSE IF b < 0 /\ a < I32_MIN - b
    THEN [overflow |-> TRUE, value |-> ((a + I32_MAX) + 1) + ((b + I32_MAX) + 1)]
    ELSE [overflow |-> FALSE, value |-> a + b]

\* `n as f32` for an i32: 24 bits of significand, round to nearest, ties to
\* the even significand.  (Within 64 of the ends of the i32 range the f32 is
\* 2^31 in magnitude; no such value arises in the model.)
as_f32(n) ==
    LET a == Abs(n)
        ulp == CASE a < 16777216 -> 1
                 [] a >= 16777216 /\ a < 33554432 -> 2
                 [] a >= 33554432 /\ a < 67108864 -> 4
                 [] a >= 67108864 /\ a < 134217728 -> 8
                 [] a >= 134217728 /\ a < 268435456 -> 16
                 [] a >= 268435456 /\ a < 536870912 -> 32
                 [] a >= 536870912 /\ a < 1073741824 -> 64
                 [] a >= 1073741824 -> 128
        q == a \div ulp
        r == a % ulp
        up == 2 * r > ulp \/ (2 * r = ulp /\ q % 2 = 1)
        m == (IF up THEN q + 1 ELSE q) * ulp
    IN IF n < 0 THEN -m ELSE m

\* Mutant: the outline is left out of the shape.
PathShape_NoOutline(sp) == [start |-> sp.start, outlines |-> <<>>]

\* SvgPathParser::parse (lines 96-106): one PathShape per subpath.
PathShape(sp) == [start |-> sp.start, outlines |-> <<sp.outline>>]
parse(r) ==
    IF r.tag = "Ok"
    THEN [tag |-> "Ok",
          shapes |-> [k \in 1..Len(r.subpaths) |-> PathShape(r.subpaths[k])]]
    ELSE [tag |-> r.tag, shapes |-> <<>>]

\* The points that the bounds loops visit: the start, every end, and the
\* controls of a Bezier outline.
SegmentPoints(outline, seg) ==
    IF outline.variant = "Line" THEN {seg.end}
    ELSE {seg.end, seg.control1, seg.control2}
OutlinePoints(outline) ==
    UNION {SegmentPoints(outline, outline.segments[k]) :
              k \in 1..Len(outline.segments)}
ShapePoints(shape) ==
    {shape.start}
    \cup UNION {OutlinePoints(shape.outlines[k]) : k \in 1..Len(shape.outlines)}
VisitedPoints(shapes) == UNION {ShapePoints(shapes[k]) : k \in 1..Len(shapes)}

Least(S) == CHOOSE v \in S : \A w \in S : v <= w
Greatest(S) == CHOOSE v \in S : \A w \in S : v >= w

\* min_x .. max_y after the loops, from i32::MAX and i32::MIN.
Bounds(shapes) ==
    LET P == VisitedPoints(shapes)
    IN [min_x |-> Least({I32_MAX} \cup {p.x : p \in P}),
        min_y |-> Least({I32_MAX} \cup {p.y : p \in P}),
        max_x |-> Greatest({I32_MIN} \cup {p.x : p \in P}),
        max_y |-> Greatest({I32_MIN} \cup {p.y : p \in P})]

\* `v as u32` for an i32.
as_u32(v) == IF v >= 0 THEN v ELSE ((v + I32_MAX) + 1) + ((I32_MAX) + 1)

\* width, height, center_x, center_y; overflow when one of the four i32
\* operations overflows.
Extent(b) ==
    LET w == i32_sub(b.max_x, b.min_x)
        h == i32_sub(b.max_y, b.min_y)
        sx == i32_add(b.min_x, b.max_x)
        sy == i32_add(b.min_y, b.max_y)
    IN [overflow |-> w.overflow \/ h.overflow \/ sx.overflow \/ sy.overflow,
        width |-> as_u32(w.value), height |-> as_u32(h.value),
        center_x |-> as_f32(sx.value), center_y |-> as_f32(sy.value)]

\* `center_x as i32`, center_x kept doubled.
center_as_i32(center) == TruncDiv(center, 2)

\* Every stored point minus (center_x as i32, center_y as i32).
RecentreSegment(outline, seg, cx, cy) ==
    IF outline.variant = "Line"
    THEN [end |-> [x |-> seg.end.x - cx, y |-> seg.end.y - cy]]
    ELSE [control1 |-> [x |-> seg.control1.x - cx, y |-> seg.control1.y - cy],
          control2 |-> [x |-> seg.control2.x - cx, y |-> seg.control2.y - cy],
          end |-> [x |-> seg.end.x - cx, y |-> seg.end.y - cy]]
RecentreOutline(outline, cx, cy) ==
    [variant |-> outline.variant,
     segments |-> [k \in 1..Len(outline.segments) |->
                      RecentreSegment(outline, outline.segments[k], cx, cy)]]
RecentreShape(shape, cx, cy) ==
    [start |-> [x |-> shape.start.x - cx, y |-> shape.start.y - cy],
     outlines |-> [k \in 1..Len(shape.outlines) |->
                      RecentreOutline(shape.outlines[k], cx, cy)]]

\* The Piece of both routines; tool is the PathTool of its paths.
Piece(shapes, e, tool) ==
    [width |-> e.width,
     height |-> e.height,
     transform |-> <<[a |-> 1, b |-> 0, c |-> 0, d |-> 1,
                      tx |-> e.center_x, ty |-> e.center_y]>>,
     paths |-> [k \in 1..Len(shapes) |->
                  [tool |-> tool,
                   shape |-> <<RecentreShape(shapes[k],
                                             center_as_i32(e.center_x),
                                             center_as_i32(e.center_y))>>]]]

\* (mm * 100.0) as u32 / as i32 on a page dimension: the f64 product,
\* truncated.  279.4 * 100.0 is 27939.999999999996; on the other page
\* dimensions of the model the product is the exact one.
times_100(mm) == IF mm = 279400 THEN 27939 ELSE TruncDiv(mm, 10)

\* PageSize::to_fcm_units (registration_marks.rs).
to_fcm_units(p) ==
    [width |-> times_100(p.width_mm), height |-> times_100(p.height_mm)]

\* calculate_registration_marks (svg_to_fcm.rs).
calculate_registration_marks(p) ==
    LET x_inset == 1200
        y_inset == 1398
        page_width == times_100(p.width_mm)
        page_height == times_100(p.height_mm)
    IN <<[x |-> x_inset, y |-> y_inset],
         [x |-> page_width - x_inset, y |-> y_inset],
         [x |-> page_width - x_inset, y |-> page_height - y_inset],
         [x |-> x_inset, y |-> page_height - y_inset]>>

\* Mutant: the alignment is left out of the file.
FcmFile_NoAlignment(piece, cut_width, cut_height, seam_allowance_width, align) ==
    [tag |-> "Ok",
     file_header |-> [variant |-> "VCM", version |-> "0100",
                      content_id |-> 400000002, generator |-> "App(1)",
                      print_to_cut |-> <<TRUE>>],
     cut_data |-> [file_type |-> "PrintAndCut", mat_id |-> 0,
                   cut_width |-> cut_width, cut_height |-> cut_height,
                   seam_allowance_width |-> seam_allowance_width,
                   alignment |-> <<>>],
     piece_table |-> [pieces |-> <<<<0, piece>>>>]]

\* The FcmFile literal of both routines; align is the vector of marks.
FcmFile(piece, cut_width, cut_height, seam_allowance_width, align) ==
    [tag |-> "Ok",
     file_header |-> [variant |-> "VCM", version |-> "0100",
                      content_id |-> 400000002, generator |-> "App(1)",
                      print_to_cut |-> <<TRUE>>],
     cut_data |-> [file_type |-> "PrintAndCut", mat_id |-> 0,
                   cut_width |-> cut_width, cut_height |-> cut_height,
                   seam_allowance_width |-> seam_allowance_width,
                   alignment |-> <<[needed |-> TRUE, marks |-> align]>>],
     piece_table |-> [pieces |-> <<<<0, piece>>>>]]

\* What a routine returns when `?` propagates the parser's error, and when
\* the thread unwinds.
FileErr(message, position) ==
    [tag |-> "Err", message |-> message, position |-> position]
FilePanic == [tag |-> "Panic"]

RoutineIdle ==
    UNCHANGED <<config, d, pos, pc, literals, tokens, i, subpaths, current_x,
                current_y, subpath_start_x, subpath_start_y, current_segments,
                has_start, last_control_x, last_control_y, last_command, ret,
                svg, fcm, returned, other_call, page, marks, caller,
                thumbnail_vars>>

\* svg_to_print_and_cut_fcm after parser.parse(svg_path_d) has returned.
\* When an i32 operation of the bounds overflows, the debug build panics and
\* the release build goes on with the wrapped value.
SvgToPrintAndCutFcm ==
    /\ caller = "svg_to_print_and_cut_fcm"
    /\ pc = "parse_tokens"
    /\ ret.tag # "None"
    /\ file = NoFile
    /\ LET r == parse(ret)
           e == Extent(Bounds(r.shapes))
           units == to_fcm_units(page)
           built == FcmFile(Piece(r.shapes, e, "TOOL_CUT | TOOL_DRAW"),
                            units.width, units.height, 2000,
                            calculate_registration_marks(page))
       IN file' \in CASE r.tag = "Err" -> {FileErr(ret.message, ret.position)}
                      [] r.tag = "Panic" -> {FilePanic}
                      [] r.tag = "Ok" /\ e.overflow -> {FilePanic, built}
                      [] r.tag = "Ok" /\ ~e.overflow -> {built}
    /\ RoutineIdle

\* generate_fcm after parser.parse(path_d) has returned.
GenerateFcm ==
    /\ caller = "generate_fcm"
    /\ pc = "parse_tokens"
    /\ ret.tag # "None"
    /\ file = NoFile
    /\ LET r == parse(ret)
           e == Extent(Bounds(r.shapes))
           units == to_fcm_units(page)
           built == FcmFile(Piece(r.shapes, e, "TOOL_CUT"),
                            units.width, units.height, 0,
                            get_fcm_alignment_marks(page))
       IN file' \in CASE r.tag = "Err" -> {FileErr(ret.message, ret.position)}
                      [] r.tag = "Panic" -> {FilePanic}
                      [] r.tag = "Ok" /\ r.shapes = <<>>
                           -> {FileErr("No paths found in SVG", 0)}
                      [] r.tag = "Ok" /\ r.shapes # <<>> /\ e.overflow
                           -> {FilePanic, built}
                      [] r.tag = "Ok" /\ r.shapes # <<>> /\ ~e.overflow
                           -> {built}
    /\ RoutineIdle

\* SvgConfig { dpi: svg_dpi, scale: 1.0, offset_x_mm: 0.0, offset_y_mm: 0.0 }
svg_config(svg_dpi) ==
    [dpi |-> svg_dpi, scale |-> 1, offset_x_mm |-> 0, offset_y_mm |-> 0]

\* The SvgConfig that generate_fcm computes (lines 338-368) from the page of
\* 127 x 177.8 mm and the viewBoxes
\*   "0 0 218.2677165354331 218.2677165354331": scale 1, dpi 72, offsets
\*       25.000000000000004 and 50.400000000000006 mm;
\*   "0 0 218.2677165354331 362.2677165354331": scale 1, dpi 72, offsets
\*       25.000000000000004 and 24.999999999999996 mm;
\*   "0 0 291.02362204724415 291.02362204724415": scale 0.75, dpi 96,
\*       offsets 24.999999999999996 and 50.4 mm.
\* An offset just below 25 mm is kept as 24.999 (it truncates to 2499).
StickerConfigs ==
    {[dpi |-> 72, scale |-> 1, offset_x_mm |-> 25000, offset_y_mm |-> 50400],
     [dpi |-> 72, scale |-> 1, offset_x_mm |-> 25000, offset_y_mm |-> 24999],
     [dpi |-> 96, scale |-> 1, offset_x_mm |-> 24999, offset_y_mm |-> 50400]}

\* "M 200,200 L 400,200 L 400,300 L 200,300 Z" (rect_path of svg_to_fcm.rs).
DriverRectPath ==
    Flatten(<<Gpx("M", <<200, 200>>), Gpx("L", <<400, 200>>),
              Gpx("L", <<400, 300>>), Gpx("L", <<200, 300>>), Gpx("Z", <<>>)>>)

\* What parse_to_subpaths returns at 96 dpi on
\* "M 0,0 L 1268200,0 L 1268200,10 Z": 1268200 px are 33554458 native units
\* (335 m), 10 px are 265.  The numbers of this path are beyond the range
\* of the fixed point of the tokens, so the result is given.
FarSubpaths ==
    <<[start |-> [x |-> 0, y |-> 0],
       outline |-> [variant |-> "Line",
                    segments |-> <<[end |-> [x |-> 33554458, y |-> 0]],
                                   [end |-> [x |-> 33554458, y |-> 265]],
                                   [end |-> [x |-> 0, y |-> 0]]>>],
       closed |-> TRUE]>>

RoutineArguments ==
    \/ /\ caller = "generate_fcm"
       /\ page = StickerSheet
       /\ config \in StickerConfigs
    \/ /\ caller = "svg_to_print_and_cut_fcm"
       /\ page \in {LETTER, A4}
       /\ config \in {svg_config(72), svg_config(96)}

InitRoutines ==
    /\ \/ /\ RoutineArguments
          /\ \/ tokens \in Examples \cup {EveryCommandPath, NumbersAfterClosePath,
                                          DriverRectPath}
             \/ \E n \in 0..MaxCmds :
                   \E gs \in [1..n -> PalMove] : tokens = Flatten(gs)
          /\ ret = NoReturn
       \/ /\ caller = "svg_to_print_and_cut_fcm"
          /\ page = LETTER
          /\ config = svg_config(96)
          /\ tokens = <<>>
          /\ ret = Ok(FarSubpaths)
    /\ marks = <<>>
    /\ file = NoFile
    /\ NoThumbnail
    /\ svg = [x |-> 0, y |-> 0]
    /\ fcm = <<>>
    /\ returned = <<>>
    /\ other_call = NoCall
    /\ d = <<>>
    /\ pos = 0
    /\ pc = "parse_tokens"
    /\ literals = <<>>
    /\ i = 0
    /\ subpaths = <<>>
    /\ current_x = 0
    /\ current_y = 0
    /\ subpath_start_x = 0
    /\ subpath_start_y = 0
    /\ current_segments = <<>>
    /\ has_start = FALSE
    /\ last_control_x = 0
    /\ last_control_y = 0
    /\ last_command = " "

NextRoutines == Next \/ SvgToPrintAndCutFcm \/ GenerateFcm

SpecRoutines == InitRoutines /\ [][NextRoutines]_vars

(***************************************************************************)
(* SvgPathParser::parse (lines 96-106) called on a path: parse_to_subpaths *)
(* runs, `?` passes its error on, and the subpaths are mapped to           *)
(* PathShapes.  file holds what parse returned.                            *)
(***************************************************************************)
ParseReturn ==
    /\ caller = "parse"
    /\ pc = "parse_tokens"
    /\ ret.tag # "None"
    /\ file = NoFile
    /\ file' = IF ret.tag = "Err" THEN FileErr(ret.message, ret.position)
               ELSE parse(ret)
    /\ RoutineIdle

InitProject ==
    /\ IsInput(tokens)
    /\ config = SvgConfig_default
    /\ d = <<>>
    /\ pos = 0
    /\ pc = "parse_tokens"
    /\ literals = <<>>
    /\ InitLocals
    /\ svg = [x |-> 0, y |-> 0]
    /\ fcm = <<>>
    /\ returned = <<>>
    /\ other_call = NoCall
    /\ page = NoPage
    /\ marks = <<>>
    /\ file = NoFile
    /\ caller = "parse"
    /\ NoThumbnail

NextProject == Next \/ ParseReturn

SpecProject == InitProject /\ [][NextProject]_vars

(***************************************************************************)
(* Paths of proper arcs.  The arcs are relative, so that each of them is   *)
(* in its class wherever the current point is: a quarter turn, three       *)
(* quarters of a turn, a half turn, and the arcs                           *)
(* "a 200000,200000 0 1 1 0.001,0" and "a 200000,200000 0 0 0 -0.001,0",   *)
(* whose chord is 5e-9 of the radius.                                      *)
(***************************************************************************)
PalArcTurns ==
    {Gpx("M", <<0, 0>>), Gpx("a", <<10, 10, 0, 0, 1, 10, 10>>),
     Gpx("a", <<10, 10, 0, 1, 0, 10, -10>>), Gpx("a", <<5, 5, 0, 0, 1, 20, 0>>),
     G("a", <<200000 * Res, 200000 * Res, 0, Res, Res, Res \div 1000, 0>>),
     G("a", <<200000 * Res, 200000 * Res, 0, 0, 0, -(Res \div 1000), 0>>),
     Gpx("Z", <<>>)}

InitArc ==
    /\ \/ tokens \in Examples \cup {EveryCommandPath, NumbersAfterClosePath}
       \/ \E n \in 0..MaxCmds :
             \E gs \in [1..n -> PalArcTurns] : tokens = Flatten(gs)
    /\ config = SvgConfig_default
    /\ NoCalls
    /\ d = <<>>
    /\ pos = 0
    /\ pc = "parse_tokens"
    /\ literals = <<>>
    /\ InitLocals

SpecArc == InitArc /\ [][Next]_vars

(***************************************************************************)
(* The binary container codec (FcmFile::to_file / FcmFile::from_file).     *)
(* Its source is not part of the files at hand: encode and decode are      *)
(* written from section 4.4 and section 6 of the specification.  A stream  *)
(* is a sequence of cells, one per number (the widths of the fields are    *)
(* not specified); a string is its length and its characters; a sequence   *)
(* is its count and its elements; an optional field is a presence cell and *)
(* the value; an enumeration is its discriminator.  The thumbnail is       *)
(* written as it is and read back with the length derived from the block   *)
(* size.  The values follow the Data Model of section 3, with the field    *)
(* names of the literals in svg_to_fcm.rs and sticker_sheet.rs.            *)
(***************************************************************************)
None == <<>>
Some(v) == <<v>>

\* The discriminators of the enumerations.
VariantCodes == [FCM |-> 1, VCM |-> 2]
FileTypeCodes == [Cut |-> 16, PrintAndCut |-> 56]
OutlineCodes == [Line |-> 0, Bezier |-> 1]
GeneratorCodes == [App |-> 0, Web |-> 1]

CodeOf(codes, name) == codes[name]
HasCode(codes, c) == \E name \in DOMAIN codes : codes[name] = c
NameOf(codes, c) == CHOOSE name \in DOMAIN codes : codes[name] = c

\* PathTool: a bit-set.
TOOL_CUT == 1
TOOL_DRAW == 2
ToolBits(tool) ==
    CASE tool = "TOOL_CUT" -> TOOL_CUT
      [] tool = "TOOL_DRAW" -> TOOL_DRAW
      [] tool = "TOOL_CUT | TOOL_DRAW" -> TOOL_CUT + TOOL_DRAW
ToolOfBits(bits) ==
    CASE bits = TOOL_CUT -> "TOOL_CUT"
      [] bits = TOOL_DRAW -> "TOOL_DRAW"
      [] bits = TOOL_CUT + TOOL_DRAW -> "TOOL_CUT | TOOL_DRAW"

\* The length of the thumbnail is derived from the declared block size; the
\* derivation is not specified.  A rule gives the length for each block
\* size: for 3 x 3 blocks svg_to_fcm.rs writes 9 bytes and sticker_sheet.rs
\* the 1118 bytes of a bitmap of 88 x 88 pixels.
BlockSizes == {<<3, 3>>, <<1, 2>>}
ThumbnailLengths == {2, 9, 1118}
ThumbnailRules == [BlockSizes -> ThumbnailLengths]

(***************************************************************************)
(* encode.                                                                 *)
(***************************************************************************)
EncString(str) == <<Len(str)>> \o str
EncBool(b) == IF b THEN <<1>> ELSE <<0>>
EncPoint(p) == <<p.x, p.y>>
EncPoints(ps) == <<Len(ps)>> \o Flatten([k \in 1..Len(ps) |-> EncPoint(ps[k])])

EncSegment(variant, seg) ==
    IF variant = "Line" THEN EncPoint(seg.end)
    ELSE EncPoint(seg.control1) \o EncPoint(seg.control2) \o EncPoint(seg.end)
EncOutline(o) ==
    <<CodeOf(OutlineCodes, o.variant), Len(o.segments)>>
    \o Flatten([k \in 1..Len(o.segments) |-> EncSegment(o.variant, o.segments[k])])
EncShape(sh) ==
    EncPoint(sh.start) \o <<Len(sh.outlines)>>
    \o Flatten([k \in 1..Len(sh.outlines) |-> EncOutline(sh.outlines[k])])
EncPath(path) ==
    <<ToolBits(path.tool)>>
    \o (IF path.shape = None THEN <<0>> ELSE <<1>> \o EncShape(path.shape[1]))
    \o (IF path.rhinestone_diameter = None THEN <<0>>
        ELSE <<1, path.rhinestone_diameter[1]>>)
    \o EncPoints(path.rhinestones)
EncTransform(t) == <<t.a, t.b, t.c, t.d, t.tx, t.ty>>
EncPiece(piece) ==
    <<piece.width, piece.height>>
    \o (IF piece.transform = None THEN <<0>>
        ELSE <<1>> \o EncTransform(piece.transform[1]))
    \o <<piece.expansion_limit_value, piece.reduction_limit_value,
         piece.restriction_flags>>
    \o EncString(piece.label)
    \o <<Len(piece.paths)>>
    \o Flatten([k \in 1..Len(piece.paths) |-> EncPath(piece.paths[k])])
EncPieceTable(t) ==
    <<Len(t.pieces)>>
    \o Flatten([k \in 1..Len(t.pieces) |->
                   <<t.pieces[k][1]>> \o EncPiece(t.pieces[k][2])])
EncAlignment(a) == EncBool(a.needed) \o EncPoints(a.marks)
EncCutData(c) ==
    <<CodeOf(FileTypeCodes, c.file_type), c.mat_id, c.cut_width, c.cut_height,
      c.seam_allowance_width>>
    \o (IF c.alignment = None THEN <<0>> ELSE <<1>> \o EncAlignment(c.alignment[1]))
EncHeader(h) ==
    <<CodeOf(VariantCodes, h.variant)>>
    \o EncString(h.version)
    \o <<h.content_id>>
    \o EncString(h.short_name) \o EncString(h.long_name)
    \o EncString(h.author_name) \o EncString(h.copyright)
    \o <<h.thumbnail_block_size_width, h.thumbnail_block_size_height>>
    \o h.thumbnail
    \o <<CodeOf(GeneratorCodes, h.generator.variant), h.generator.value>>
    \o (IF h.print_to_cut = None THEN <<0>> ELSE <<1>> \o EncBool(h.print_to_cut[1]))

encode(f) ==
    EncHeader(f.file_header) \o EncCutData(f.cut_data) \o EncPieceTable(f.piece_table)

(***************************************************************************)
(* decode.  A reader is the stream, the position of the next cell and the  *)
(* error met so far; after an error every read leaves it as it is.  A      *)
(* short read is an IoError; an unknown discriminator, a presence cell     *)
(* that is neither 0 nor 1 and a count beyond the remaining cells are      *)
(* FormatErrors.                                                           *)
(***************************************************************************)
Reader(s) == [s |-> s, p |-> 1, err |-> "", out |-> <<>>]
Remaining(r) == Len(r.s) - r.p + 1
Failed(r, kind) == IF r.err = "" THEN [r EXCEPT !.err = kind] ELSE r

\* The values read so far, the last one on top; Out(r, 0) is the top.
Out(r, k) == r.out[Len(r.out) - k]
Top(r) == Out(r, 0)
Drop(r, n) == [r EXCEPT !.out = SubSeq(@, 1, Len(@) - n)]
Pop(r) == Drop(r, 1)
Push(r, v) == [r EXCEPT !.out = Append(@, v)]
\* An element and the list read after it become one list.
Cons(r) == Push(Drop(r, 2), <<Out(r, 1)>> \o Out(r, 0))

ReadCell(r) ==
    IF r.err # "" \/ Remaining(r) < 1 THEN Push(Failed(r, "IoError"), 0)
    ELSE Push([r EXCEPT !.p = @ + 1], r.s[r.p])

ReadCells(r, n) ==
    IF r.err # "" \/ Remaining(r) < n THEN Push(Failed(r, "IoError"), <<>>)
    ELSE Push([r EXCEPT !.p = @ + n], SubSeq(r.s, r.p, r.p + n - 1))

ReadCount(r) ==
    LET Check(c) ==
            IF c.err = "" /\ (Top(c) < 0 \/ Top(c) > Remaining(c))
            THEN Push(Pop(Failed(c, "FormatError")), 0)
            ELSE c
    IN Check(ReadCell(r))

ReadFlag(r) ==
    LET Check(c) ==
            IF c.err # "" THEN Push(Pop(c), FALSE)
            ELSE IF Top(c) \notin {0, 1}
            THEN Push(Pop(Failed(c, "FormatError")), FALSE)
            ELSE Push(Pop(c), Top(c) = 1)
    IN Check(ReadCell(r))

ReadCode(r, codes) ==
    LET Check(c) ==
            IF c.err # "" THEN Push(Pop(c), "")
            ELSE IF ~HasCode(codes, Top(c))
            THEN Push(Pop(Failed(c, "FormatError")), "")
            ELSE Push(Pop(c), NameOf(codes, Top(c)))
    IN Check(ReadCell(r))

ReadString(r) ==
    LET Counted(n) == ReadCells(Pop(n), Top(n))
    IN Counted(ReadCount(r))

ReadPoint(r) ==
    LET Pack(q) == Push(Drop(q, 2), [x |-> Out(q, 1), y |-> Out(q, 0)])
    IN Pack(ReadCell(ReadCell(r)))

RECURSIVE ReadPointsN(_, _)
ReadPointsN(r, n) ==
    IF n = 0 \/ r.err # "" THEN Push(r, <<>>)
    ELSE Cons(ReadPointsN(ReadPoint(r), n - 1))
ReadPoints(r) ==
    LET Counted(n) == ReadPointsN(Pop(n), Top(n))
    IN Counted(ReadCount(r))

ReadSegment(r, variant) ==
    LET PackLine(q) == Push(Pop(q), [end |-> Top(q)])
        PackBezier(q) ==
            Push(Drop(q, 3),
                 [control1 |-> Out(q, 2), control2 |-> Out(q, 1), end |-> Out(q, 0)])
    IN IF variant = "Line" THEN PackLine(ReadPoint(r))
       ELSE PackBezier(ReadPoint(ReadPoint(ReadPoint(r))))

RECURSIVE ReadSegmentsN(_, _, _)
ReadSegmentsN(r, variant, n) ==
    IF n = 0 \/ r.err # "" THEN Push(r, <<>>)
    ELSE Cons(ReadSegmentsN(ReadSegment(r, variant), variant, n - 1))

\* variant, count, segments
ReadOutline(r) ==
    LET Counted(n) == ReadSegmentsN(Pop(n), Out(n, 1), Top(n))
        Pack(q) == Push(Drop(q, 2), [variant |-> Out(q, 1), segments |-> Out(q, 0)])
    IN Pack(Counted(ReadCount(ReadCode(r, OutlineCodes))))

RECURSIVE ReadOutlinesN(_, _)
ReadOutlinesN(r, n) ==
    IF n = 0 \/ r.err # "" THEN Push(r, <<>>)
    ELSE Cons(ReadOutlinesN(ReadOutline(r), n - 1))

\* start, count, outlines
ReadShape(r) ==
    LET Counted(n) == ReadOutlinesN(Pop(n), Top(n))
        Pack(q) == Push(Drop(q, 2), [start |-> Out(q, 1), outlines |-> Out(q, 0)])
    IN Pack(Counted(ReadCount(ReadPoint(r))))

\* tool bits, shape flag, shape, diameter flag, diameter, rhinestones
ReadPath(r) ==
    LET Known(bits) ==
            IF bits.err = "" /\ Top(bits) \notin 1..(TOOL_CUT + TOOL_DRAW)
            THEN Failed(bits, "FormatError") ELSE bits
        Shape(has_shape) ==
            IF Top(has_shape) THEN ReadShape(has_shape) ELSE Push(has_shape, None)
        Diameter(has_diameter) ==
            IF Top(has_diameter) THEN ReadCell(has_diameter) ELSE Push(has_diameter, 0)
        Pack(q) ==
            Push(Drop(q, 6),
                 [tool |-> IF q.err = "" THEN ToolOfBits(Out(q, 5)) ELSE "",
                  shape |-> IF Out(q, 4) THEN Some(Out(q, 3)) ELSE None,
                  rhinestone_diameter |-> IF Out(q, 2) THEN Some(Out(q, 1)) ELSE None,
                  rhinestones |-> Out(q, 0)])
    IN Pack(ReadPoints(Diameter(ReadFlag(Shape(ReadFlag(Known(ReadCell(r))))))))

RECURSIVE ReadPathsN(_, _)
ReadPathsN(r, n) ==
    IF n = 0 \/ r.err # "" THEN Push(r, <<>>)
    ELSE Cons(ReadPathsN(ReadPath(r), n - 1))

\* width, height, transform flag, transform, expansion, reduction, flags,
\* label, count, paths
ReadPiece(r) ==
    LET Transform(has_transform) ==
            IF Top(has_transform) THEN ReadCells(has_transform, 6)
            ELSE Push(has_transform, <<>>)
        Counted(n) == ReadPathsN(Pop(n), Top(n))
        t(q) == Out(q, 5)
        Pack(q) ==
            Push(Drop(q, 9),
                 [width |-> Out(q, 8), height |-> Out(q, 7),
                  transform |-> IF Out(q, 6) /\ Len(t(q)) = 6
                                THEN Some([a |-> t(q)[1], b |-> t(q)[2],
                                           c |-> t(q)[3], d |-> t(q)[4],
                                           tx |-> t(q)[5], ty |-> t(q)[6]])
                                ELSE None,
                  expansion_limit_value |-> Out(q, 4),
                  reduction_limit_value |-> Out(q, 3),
                  restriction_flags |-> Out(q, 2),
                  label |-> Out(q, 1),
                  paths |-> Out(q, 0)])
    IN Pack(Counted(ReadCount(ReadString(ReadCell(ReadCell(ReadCell(
            Transform(ReadFlag(ReadCell(ReadCell(r)))))))))))

\* id, piece
RECURSIVE ReadPiecesN(_, _)
ReadPiecesN(r, n) ==
    LET Pack(q) == Push(Drop(q, 2), <<Out(q, 1), Out(q, 0)>>)
    IN IF n = 0 \/ r.err # "" THEN Push(r, <<>>)
       ELSE Cons(ReadPiecesN(Pack(ReadPiece(ReadCell(r))), n - 1))

ReadPieceTable(r) ==
    LET Counted(n) == ReadPiecesN(Pop(n), Top(n))
        Pack(q) == Push(Pop(q), [pieces |-> Top(q)])
    IN Pack(Counted(ReadCount(r)))

\* file type, mat id, cut width, cut height, seam allowance, alignment flag,
\* needed, marks
ReadCutData(r) ==
    LET Needed(has_alignment) ==
            IF Top(has_alignment) THEN ReadFlag(has_alignment)
            ELSE Push(has_alignment, FALSE)
        Marks(needed) ==
            IF Out(needed, 1) THEN ReadPoints(needed) ELSE Push(needed, <<>>)
        Pack(q) ==
            Push(Drop(q, 8),
                 [file_type |-> Out(q, 7), mat_id |-> Out(q, 6),
                  cut_width |-> Out(q, 5), cut_height |-> Out(q, 4),
                  seam_allowance_width |-> Out(q, 3),
                  alignment |-> IF Out(q, 2)
                                THEN Some([needed |-> Out(q, 1), marks |-> Out(q, 0)])
                                ELSE None])
    IN Pack(Marks(Needed(ReadFlag(ReadCell(ReadCell(ReadCell(ReadCell(
            ReadCode(r, FileTypeCodes)))))))))

ReadThumbnail(r, rule, width, height) ==
    IF r.err = "" /\ <<width, height>> \notin DOMAIN rule
    THEN Push(Failed(r, "FormatError"), <<>>)
    ELSE IF r.err # "" THEN Push(r, <<>>)
    ELSE ReadCells(r, rule[<<width, height>>])

\* variant, version, content id, short name, long name, author name,
\* copyright, block width, block height, thumbnail, generator, value,
\* print-to-cut flag, print-to-cut
ReadHeader(r, rule) ==
    LET Thumbnail(height) == ReadThumbnail(height, rule, Out(height, 1), Top(height))
        Flag(has_flag) ==
            IF Top(has_flag) THEN ReadFlag(has_flag) ELSE Push(has_flag, FALSE)
        Pack(q) ==
            Push(Drop(q, 14),
                 [variant |-> Out(q, 13), version |-> Out(q, 12),
                  content_id |-> Out(q, 11), short_name |-> Out(q, 10),
                  long_name |-> Out(q, 9), author_name |-> Out(q, 8),
                  copyright |-> Out(q, 7),
                  thumbnail_block_size_width |-> Out(q, 6),
                  thumbnail_block_size_height |-> Out(q, 5),
                  thumbnail |-> Out(q, 4),
                  generator |-> [variant |-> Out(q, 3), value |-> Out(q, 2)],
                  print_to_cut |-> IF Out(q, 1) THEN Some(Out(q, 0)) ELSE None])
    IN Pack(Flag(ReadFlag(ReadCell(ReadCode(Thumbnail(ReadCell(ReadCell(
            ReadString(ReadString(ReadString(ReadString(ReadCell(ReadString(
            ReadCode(r, VariantCodes)))))))))), GeneratorCodes)))))

\* Cells after the piece table are a FormatError.
decode(s, rule) ==
    LET Whole(q) ==
            IF q.err = "" /\ Remaining(q) > 0 THEN Failed(q, "FormatError") ELSE q
        Result(q) ==
            IF q.err # "" THEN [tag |-> "Err", kind |-> q.err]
            ELSE [tag |-> "Ok",
                  file |-> [file_header |-> Out(q, 2), cut_data |-> Out(q, 1),
                            piece_table |-> Out(q, 0)]]
    IN Result(Whole(ReadPieceTable(ReadCutData(ReadHeader(Reader(s), rule)))))

(***************************************************************************)
(* The files that are written.  A file of a conversion routine is its      *)
(* FcmFile literal with the thumbnail of the routine; generate_fcm is      *)
(* followed up to to_file on the paths whose bounding box has no width or  *)
(* no height, for which generate_thumbnail returns the blank bitmap.       *)
(***************************************************************************)
\* "0100" and " ".
Version0100 == <<48, 49, 48, 48>>
Space == <<32>>

BMP_HEADER ==
    <<66, 77, 94, 4, 0, 0, 0, 0, 0, 0, 62, 0, 0, 0, 40, 0, 0, 0,
      88, 0, 0, 0, 88, 0, 0, 0, 1, 0, 1, 0, 0, 0, 0, 0, 0, 0, 0, 0,
      196, 14, 0, 0, 196, 14, 0, 0, 2, 0, 0, 0, 2, 0, 0, 0,
      0, 0, 0, 255, 255, 255, 255, 255>>
SIZE == 88
ROW_BYTES == 12

\* generate_thumbnail when width <= 0.0 || height <= 0.0.
BlankThumbnail == BMP_HEADER \o [k \in 1..(SIZE * ROW_BYTES) |-> 255]
\* vec![0; 9]
ZeroThumbnail == [k \in 1..9 |-> 0]

CompletePath(path) ==
    [tool |-> path.tool, shape |-> path.shape, rhinestone_diameter |-> None,
     rhinestones |-> <<>>]
CompletePiece(piece) ==
    [width |-> piece.width, height |-> piece.height,
     transform |-> piece.transform,
     expansion_limit_value |-> 0, reduction_limit_value |-> 0,
     restriction_flags |-> 0, label |-> <<>>,
     paths |-> [k \in 1..Len(piece.paths) |-> CompletePath(piece.paths[k])]]

\* The FcmFile literal with all its fields.
CompleteFile(f, thumbnail) ==
    [file_header |->
        [variant |-> f.file_header.variant, version |-> Version0100,
         content_id |-> f.file_header.content_id,
         short_name |-> <<>>, long_name |-> Space, author_name |-> Space,
         copyright |-> <<>>,
         thumbnail_block_size_width |-> 3, thumbnail_block_size_height |-> 3,
         thumbnail |-> thumbnail,
         generator |-> [variant |-> "App", value |-> 1],
         print_to_cut |-> f.file_header.print_to_cut],
     cut_data |-> f.cut_data,
     piece_table |->
        [pieces |-> [k \in 1..Len(f.piece_table.pieces) |->
                        <<f.piece_table.pieces[k][1],
                          CompletePiece(f.piece_table.pieces[k][2])>>]]]

\* Values of the Data Model that no routine of the repository builds: the
\* other variant and file type, absent optional fields, a path without a
\* shape, rhinestones, two outlines, two pieces, an empty piece table, and
\* values that break the cross-field rule.
PlainHeader(variant, print_to_cut) ==
    [variant |-> variant, version |-> Version0100, content_id |-> 7,
     short_name |-> <<65>>, long_name |-> Space, author_name |-> <<>>,
     copyright |-> <<67, 68>>,
     thumbnail_block_size_width |-> 1, thumbnail_block_size_height |-> 2,
     thumbnail |-> <<170, 85>>,
     generator |-> [variant |-> "Web", value |-> 3],
     print_to_cut |-> print_to_cut]
PlainCutData(file_type, alignment) ==
    [file_type |-> file_type, mat_id |-> 1, cut_width |-> 30480,
     cut_height |-> 30480, seam_allowance_width |-> 500, alignment |-> alignment]
LinePiece ==
    [width |-> 100, height |-> 50, transform |-> None,
     expansion_limit_value |-> 1, reduction_limit_value |-> 2,
     restriction_flags |-> 4, label |-> <<76>>,
     paths |-> <<[tool |-> "TOOL_DRAW",
                  shape |-> Some([start |-> [x |-> -50, y |-> -25],
                                  outlines |->
                                     <<[variant |-> "Line",
                                        segments |-> <<[end |-> [x |-> 50, y |-> 25]]>>],
                                       [variant |-> "Bezier",
                                        segments |->
                                           <<[control1 |-> [x |-> 0, y |-> 1],
                                              control2 |-> [x |-> 2, y |-> 3],
                                              end |-> [x |-> -50, y |-> -25]]>>]>>]),
                  rhinestone_diameter |-> None, rhinestones |-> <<>>],
                 [tool |-> "TOOL_CUT", shape |-> None,
                  rhinestone_diameter |-> Some(30),
                  rhinestones |-> <<[x |-> 1, y |-> 2], [x |-> 3, y |-> 4]>>]>>]
EmptyPiece ==
    [width |-> 0, height |-> 0,
     transform |-> Some([a |-> 1, b |-> 0, c |-> 0, d |-> 1, tx |-> -3, ty |-> 8]),
     expansion_limit_value |-> 0, reduction_limit_value |-> 0,
     restriction_flags |-> 0, label |-> <<>>, paths |-> <<>>]
PlainAlignment == [needed |-> FALSE, marks |-> <<[x |-> 1200, y |-> 1398]>>]

DataModelFiles ==
    {[file_header |-> PlainHeader(v, p), cut_data |-> PlainCutData(t, a),
      piece_table |-> [pieces |-> ps]] :
        v \in {"FCM", "VCM"}, p \in {None, Some(TRUE), Some(FALSE)},
        t \in {"Cut", "PrintAndCut"}, a \in {None, Some(PlainAlignment)},
        ps \in {<<>>, <<<<5, LinePiece>>, <<2, EmptyPiece>>>>}}

\* The invariants of the Data Model (section 3): alignment is present iff
\* the file type is print-and-cut, and print_to_cut is Some(true) iff the
\* alignment is present; the ids of the pieces are unique.
ValidFile(f) ==
    /\ (f.cut_data.alignment # None) <=> (f.cut_data.file_type = "PrintAndCut")
    /\ (f.file_header.print_to_cut = Some(TRUE)) <=> (f.cut_data.alignment # None)
    /\ \A j, k \in 1..Len(f.piece_table.pieces) :
          f.piece_table.pieces[j][1] = f.piece_table.pieces[k][1] => j = k

\* "M 0,0 L 0,100": a bounding box without width.
VerticalLinePath == Flatten(<<Gpx("M", <<0, 0>>), Gpx("L", <<0, 100>>)>>)

InitCodec ==
    /\ \/ /\ RoutineArguments
          /\ tokens \in Examples \cup {EveryCommandPath, NumbersAfterClosePath,
                                       DriverRectPath, VerticalLinePath}
          /\ file = NoFile
       \/ /\ caller = "none"
          /\ page = NoPage
          /\ config = SvgConfig_default
          /\ tokens = <<>>
          /\ \E f \in DataModelFiles : file = [tag |-> "Value", value |-> f]
    /\ ret = NoReturn
    /\ marks = <<>>
    /\ NoThumbnail
    /\ svg = [x |-> 0, y |-> 0]
    /\ fcm = <<>>
    /\ returned = <<>>
    /\ other_call = NoCall
    /\ d = <<>>
    /\ pos = 0
    /\ pc = "parse_tokens"
    /\ literals = <<>>
    /\ InitLocals

CodecIdle ==
    UNCHANGED <<config, d, pos, pc, literals, tokens, i, subpaths, current_x,
                current_y, subpath_start_x, subpath_start_y, current_segments,
                has_start, last_control_x, last_control_y, last_command, ret,
                svg, returned, other_call, page, marks, file, caller,
                thumbnail_vars>>

\* The value that to_file is called on.
WrittenFile ==
    CASE file.tag = "Value" -> file.value
      [] file.tag = "Ok" /\ caller = "svg_to_print_and_cut_fcm"
           -> CompleteFile(file, ZeroThumbnail)
      [] file.tag = "Ok" /\ caller = "generate_fcm"
           -> CompleteFile(file, BlankThumbnail)

\* fcm.to_file(path): the bytes of the file.  The rule is the derivation of
\* the thumbnail length of the codec at hand.
ToFile ==
    /\ fcm = <<>>
    /\ file.tag \in {"Value", "Ok"}
    /\ (file.tag = "Ok" /\ caller = "generate_fcm")
       => LET piece == file.piece_table.pieces[1][2]
          IN piece.width = 0 \/ piece.height = 0
    /\ \E rule \in ThumbnailRules :
          fcm' = <<[fn |-> "to_file", value |-> WrittenFile,
                    bytes |-> encode(WrittenFile), rule |-> rule]>>
    /\ CodecIdle

\* The file loses its last cell, or its second half, before it is read.
Truncate ==
    /\ Len(fcm) = 1
    /\ fcm[1].bytes = encode(fcm[1].value)
    /\ \E n \in {Len(fcm[1].bytes) - 1, Len(fcm[1].bytes) \div 2} :
          fcm' = <<[fcm[1] EXCEPT !.bytes = SubSeq(@, 1, n)]>>
    /\ CodecIdle

\* FcmFile::from_file(path).
FromFile ==
    /\ Len(fcm) = 1
    /\ fcm' = Append(fcm, [fn |-> "from_file",
                           result |-> decode(fcm[1].bytes, fcm[1].rule)])
    /\ CodecIdle

NextCodec == NextRoutines \/ ToFile \/ Truncate \/ FromFile

SpecCodec == InitCodec /\ [][NextCodec]_vars

(***************************************************************************)
(* generate_thumbnail of the sticker sheet example (sticker_sheet.rs,      *)
(* lines 41-141): one step for the entry, one per iteration of the loops   *)
(* over the paths and their segments, one per iteration of the loop of     *)
(* draw_line, and one for the return.  The floats are followed exactly:    *)
(* with m = max(width, height), transform gives                            *)
(*   (px - min_x) * (80 / m) + (88 - width * (80 / m)) / 2                 *)
(*     = (160 * (px - min_x) + 88 * m - 80 * width) / (2 * m).             *)
(* 80 / m is a double without rounding when m is a power of two times 1 or *)
(* 5; otherwise the products are rounded, and a result that is a whole     *)
(* number in exact arithmetic may come out just below it.                  *)
(***************************************************************************)
\* vec![0xFFu8; SIZE * ROW_BYTES]
WhitePixels == [k \in 1..(SIZE * ROW_BYTES) |-> 255]

\* byte & !(1 << bit_idx)
RECURSIVE Shl(_)
Shl(bit_idx) == IF bit_idx = 0 THEN 1 ELSE 2 * Shl(bit_idx - 1)
ClearBit(byte, bit_idx) ==
    IF (byte \div Shl(bit_idx)) % 2 = 1 THEN byte - Shl(bit_idx) ELSE byte

\* An index past the end of the buffer: the call panics.
OutOfBounds == <<"index out of bounds">>

\* Mutant: the guard lets the column and the row SIZE through.
set_pixel_UpToSize(buf, x, y) ==
    IF x >= 0 /\ x <= SIZE /\ y >= 0 /\ y <= SIZE
    THEN LET row == SIZE - 1 - y
             col == x
             byte_idx == row * ROW_BYTES + col \div 8
             bit_idx == 7 - (col % 8)
         IN IF byte_idx >= 0 /\ byte_idx < Len(buf)
            THEN [buf EXCEPT ![byte_idx + 1] = ClearBit(@, bit_idx)]
            ELSE OutOfBounds
    ELSE buf

\* The closure set_pixel (lines 64-73).
set_pixel(buf, x, y) ==
    IF x >= 0 /\ x < SIZE /\ y >= 0 /\ y < SIZE
    THEN LET row == SIZE - 1 - y
             col == x
             byte_idx == row * ROW_BYTES + col \div 8
             bit_idx == 7 - (col % 8)
         IN IF byte_idx < Len(buf)
            THEN [buf EXCEPT ![byte_idx + 1] = ClearBit(@, bit_idx)]
            ELSE OutOfBounds
    ELSE buf

\* width and height (lines 48-49).  The caller has computed the same
\* differences (line 424) before the call, so one that overflows is one that
\* did not panic there: it has wrapped.
ThumbnailWidth == i32_sub(max_x, min_x).value
ThumbnailHeight == i32_sub(max_y, min_y).value

RECURSIVE OddPart(_)
OddPart(m) == IF m % 2 = 0 THEN OddPart(m \div 2) ELSE m
ExactScale(m) == OddPart(m) \in {1, 5}

\* `v as i32` for the float computed for a / b (b > 0): truncation; a whole
\* number computed with rounding may have come out just below itself.
FloatAsI32(a, b, exact) ==
    IF exact \/ a % b # 0 \/ a = 0
    THEN {TruncDiv(a, b)}
    ELSE IF a > 0 THEN {a \div b, (a \div b) - 1} ELSE {a \div b, (a \div b) + 1}

\* The closure transform (lines 101-105): the points it can return.
transform(px, py) ==
    LET width == ThumbnailWidth
        height == ThumbnailHeight
        m == IF width >= height THEN width ELSE height
        xs == FloatAsI32(160 * (px - min_x) + SIZE * m - 80 * width, 2 * m,
                         ExactScale(m))
        ys == FloatAsI32(160 * (py - min_y) + SIZE * m - 80 * height, 2 * m,
                         ExactScale(m))
    IN {[x |-> tx, y |-> ty] : tx \in xs, ty \in ys}

\* The ends of the segments of a shape, in the order the loops over its
\* outlines visit them (lines 112-134); both arms do the same.
RECURSIVE SegmentEnds(_)
SegmentEnds(outlines) ==
    IF outlines = <<>> THEN <<>>
    ELSE [k \in 1..Len(Head(outlines).segments) |-> Head(outlines).segments[k].end]
         \o SegmentEnds(Tail(outlines))

\* Mutant: x always steps to the right.
DrawLineEntry_StepRight(x0, y0, x1, y1) ==
    LET dx == Abs(x1 - x0)
        dy == -Abs(y1 - y0)
    IN [x1 |-> x1, y1 |-> y1, dx |-> dx, dy |-> dy,
        sx |-> 1, sy |-> IF y0 < y1 THEN 1 ELSE -1,
        err |-> dx + dy, x |-> x0, y |-> y0]

\* The locals of draw_line before its loop (lines 77-83).
DrawLineEntry(x0, y0, x1, y1) ==
    LET dx == Abs(x1 - x0)
        dy == -Abs(y1 - y0)
    IN [x1 |-> x1, y1 |-> y1, dx |-> dx, dy |-> dy,
        sx |-> IF x0 < x1 THEN 1 ELSE -1, sy |-> IF y0 < y1 THEN 1 ELSE -1,
        err |-> dx + dy, x |-> x0, y |-> y0]

ThumbnailIdle ==
    UNCHANGED <<config, d, pos, literals, tokens, i, subpaths, current_x,
                current_y, subpath_start_x, subpath_start_y, current_segments,
                has_start, last_control_x, last_control_y, last_command, ret,
                svg, fcm, returned, other_call, page, marks, file, caller,
                min_x, min_y, max_x, max_y, paths>>

\* Lines 46-61: the white image, and the blank thumbnail of a box without
\* width or height.
ThumbnailEntry ==
    /\ pc = "generate_thumbnail"
    /\ pixels' = WhitePixels
    /\ IF ThumbnailWidth <= 0 \/ ThumbnailHeight <= 0
       THEN /\ bmp' = BMP_HEADER \o WhitePixels
            /\ pc' = "returned"
            /\ next_seg' = next_seg
       ELSE /\ bmp' = bmp
            /\ pc' = "paths"
            /\ next_seg' = [path |-> 1, seg |-> 0]
    /\ UNCHANGED <<cur_x, cur_y, draw_line>>
    /\ ThumbnailIdle

\* Lines 108-110: the next path; one without a shape is skipped.
ThumbnailPath ==
    /\ pc = "paths"
    /\ next_seg.seg = 0
    /\ next_seg.path <= Len(paths)
    /\ LET path == paths[next_seg.path]
       IN IF path.shape = None
          THEN /\ next_seg' = [path |-> next_seg.path + 1, seg |-> 0]
               /\ UNCHANGED <<cur_x, cur_y>>
          ELSE /\ \E start \in transform(path.shape[1].start.x,
                                         path.shape[1].start.y) :
                     cur_x' = start.x /\ cur_y' = start.y
               /\ next_seg' = [next_seg EXCEPT !.seg = 1]
    /\ UNCHANGED <<pc, pixels, draw_line, bmp>>
    /\ ThumbnailIdle

\* Lines 112-134: the next segment of the shape is drawn from the current
\* point, or the shape has no further segment.
ThumbnailSegment ==
    /\ pc = "paths"
    /\ next_seg.seg >= 1
    /\ LET ends == SegmentEnds(paths[next_seg.path].shape[1].outlines)
       IN IF next_seg.seg <= Len(ends)
          THEN /\ \E n \in transform(ends[next_seg.seg].x, ends[next_seg.seg].y) :
                     draw_line' = DrawLineEntry(cur_x, cur_y, n.x, n.y)
               /\ pc' = "draw_line"
               /\ next_seg' = next_seg
          ELSE /\ next_seg' = [path |-> next_seg.path + 1, seg |-> 0]
               /\ UNCHANGED <<pc, draw_line>>
    /\ UNCHANGED <<pixels, cur_x, cur_y, bmp>>
    /\ ThumbnailIdle

\* One iteration of the loop of draw_line (lines 85-97); after the break the
\* end of the line is the current point (lines 118-119, 128-129).
DrawLineStep ==
    /\ pc = "draw_line"
    /\ LET plotted == set_pixel(pixels, draw_line.x, draw_line.y)
           e2 == 2 * draw_line.err
           stepX == e2 >= draw_line.dy
           stepY == e2 <= draw_line.dx
       IN IF plotted = OutOfBounds
          THEN /\ pc' = "panicked"
               /\ UNCHANGED <<pixels, cur_x, cur_y, next_seg, draw_line>>
          ELSE /\ pixels' = plotted
               /\ IF draw_line.x = draw_line.x1 /\ draw_line.y = draw_line.y1
                  THEN /\ cur_x' = draw_line.x1
                       /\ cur_y' = draw_line.y1
                       /\ next_seg' = [next_seg EXCEPT !.seg = @ + 1]
                       /\ pc' = "paths"
                       /\ draw_line' = draw_line
                  ELSE /\ draw_line' =
                            [draw_line EXCEPT
                               !.err = @ + (IF stepX THEN draw_line.dy ELSE 0)
                                         + (IF stepY THEN draw_line.dx ELSE 0),
                               !.x = IF stepX THEN @ + draw_line.sx ELSE @,
                               !.y = IF stepY THEN @ + draw_line.sy ELSE @]
                       /\ UNCHANGED <<cur_x, cur_y, next_seg, pc>>
    /\ bmp' = bmp
    /\ ThumbnailIdle

\* Lines 138-140: the header and the pixels.
ThumbnailReturn ==
    /\ pc = "paths"
    /\ next_seg.path > Len(paths)
    /\ bmp' = BMP_HEADER \o pixels
    /\ pc' = "returned"
    /\ UNCHANGED <<pixels, cur_x, cur_y, next_seg, draw_line>>
    /\ ThumbnailIdle

(***************************************************************************)
(* The calls of generate_thumbnail.  generate_fcm hands it the bounding    *)
(* box of the paths (lines 389-430), of which each has a shape; the other  *)
(* calls take a box that the paths leave, a box without or with negative   *)
(* extent, a path without a shape and no path at all.                      *)
(***************************************************************************)
MaxReach == 8

At(a, b) == [x |-> a, y |-> b]
LineShape(start, ends) ==
    [start |-> start,
     outlines |-> <<[variant |-> "Line",
                     segments |-> [k \in 1..Len(ends) |-> [end |-> ends[k]]]]>>]
BezierShape(start, ends) ==
    [start |-> start,
     outlines |-> <<[variant |-> "Bezier",
                     segments |-> [k \in 1..Len(ends) |->
                                     [control1 |-> start, control2 |-> ends[k],
                                      end |-> ends[k]]]]>>]
\* Path { tool, shape: Some(shape), .. } (lines 378-386).
CutPath(shape) == [tool |-> "TOOL_CUT", shape |-> Some(shape)]
ShapelessPath == [tool |-> "TOOL_CUT", shape |-> None]

ThumbnailCall(b, ps) ==
    [min_x |-> b.min_x, min_y |-> b.min_y, max_x |-> b.max_x,
     max_y |-> b.max_y, paths |-> ps]
\* The call of generate_fcm on these shapes.
CallOnBounds(shapes) ==
    ThumbnailCall(Bounds(shapes), [k \in 1..Len(shapes) |-> CutPath(shapes[k])])
Box(a, b, c, e) == [min_x |-> a, min_y |-> b, max_x |-> c, max_y |-> e]

\* 160 x 80: the scale is 1/2 and the offsets are 4 and 24.
WideRectangle ==
    LineShape(At(0, 0), <<At(160, 0), At(160, 80), At(0, 80), At(0, 0)>>)
\* 100 x 100: the scale, 0.8, is rounded.
OpenTriangle == LineShape(At(1000, 1000), <<At(1100, 1000), At(1050, 1100)>>)
\* A curve and a line that cross, 80 x 40.
CrossingShapes ==
    <<BezierShape(At(0, 0), <<At(80, 40)>>), LineShape(At(80, 0), <<At(0, 40)>>)>>
\* Points from -6 to 88 across and from -16 to 104 down in the thumbnail.
LeavingShape ==
    LineShape(At(-10, 40), <<At(84, 100), At(40, -20), At(84, 40)>>)
\* The whole range of the coordinates.
FarShape == LineShape(At(I32_MIN, 0), <<At(I32_MAX, 10)>>)

ThumbnailCalls ==
    {CallOnBounds(<<WideRectangle>>), CallOnBounds(<<OpenTriangle>>),
     CallOnBounds(CrossingShapes), CallOnBounds(<<FarShape>>),
     CallOnBounds(<<LineShape(At(5, 0), <<At(5, 100)>>)>>),
     CallOnBounds(<<LineShape(At(0, 5), <<At(100, 5)>>)>>),
     CallOnBounds(<<LineShape(At(7, 7), <<>>)>>),
     ThumbnailCall(Box(10, 10, 0, 0), <<CutPath(WideRectangle)>>),
     ThumbnailCall(Box(0, 0, 80, 80), <<>>),
     ThumbnailCall(Box(0, 0, 80, 80), <<ShapelessPath, CutPath(LeavingShape)>>)}
    \cup {ThumbnailCall(Box(0, 0, 80, 80),
                        <<CutPath(LineShape(At(40, 40), <<At(40 + a, 40 + b)>>))>>) :
            a \in (-MaxReach)..MaxReach, b \in (-MaxReach)..MaxReach}

InitThumbnail ==
    /\ \E call \in ThumbnailCalls :
          /\ min_x = call.min_x
          /\ min_y = call.min_y
          /\ max_x = call.max_x
          /\ max_y = call.max_y
          /\ paths = call.paths
    /\ pc = "generate_thumbnail"
    /\ pixels = <<>>
    /\ cur_x = 0
    /\ cur_y = 0
    /\ next_seg = [path |-> 0, seg |-> 0]
    /\ draw_line = DrawLineEntry(0, 0, 0, 0)
    /\ bmp = <<>>
    /\ config = SvgConfig_default
    /\ d = <<>>
    /\ pos = 0
    /\ literals = <<>>
    /\ tokens = <<>>
    /\ InitLocals
    /\ svg = [x |-> 0, y |-> 0]
    /\ fcm = <<>>
    /\ returned = <<>>
    /\ other_call = NoCall
    /\ page = NoPage
    /\ marks = <<>>
    /\ file = NoFile
    /\ caller = "generate_fcm"

NextThumbnail ==
    ThumbnailEntry \/ ThumbnailPath \/ ThumbnailSegment \/ DrawLineStep
      \/ ThumbnailReturn

SpecThumbnail == InitThumbnail /\ [][NextThumbnail]_vars

(***************************************************************************)
(* Vocabulary of the properties.  These definitions read the state and the *)
(* input only; none of them uses an operator of the parser.                *)
(***************************************************************************)
LastOf(seq) == seq[Len(seq)]

\* The step appends exactly one subpath and leaves the earlier ones alone.
EmitsOne ==
    /\ Len(subpaths') = Len(subpaths) + 1
    /\ SubSeq(subpaths', 1, Len(subpaths)) = subpaths

\* Within 1e-3 source units: |a - b| <= 0.001, on the fixed-point grid.
Within(a, b) == 1000 * Abs(a - b) <= Res

OpenWithSegments == has_start /\ Len(current_segments) >= 1

\* The native point of a source point at the default configuration.
Native(x, y) == [x |-> RoundDiv(254 * x, 96 * (Res \div 10)),
                 y |-> RoundDiv(254 * y, 96 * (Res \div 10))]

\* The end point of an emitted segment, whatever the outline's variant.
EndOf(seg) == seg.end

\* The numbers that directly follow token k (0-based), up to the next letter.
RECURSIVE NumbersFrom(_)
NumbersFrom(k) == IF IsNumberAt(k) THEN 1 + NumbersFrom(k + 1) ELSE 0

\* The m-th operand (m >= 1) of the command at token i.
Operand(m) == tokens[i + 1 + m].num

(***************************************************************************)
(* C1 (as stated): when Z is executed on an open subpath with n >= 1       *)
(* segments whose current point differs from the subpath start, one line   *)
(* segment ending at the start is appended and the subpath is emitted      *)
(* closed with n + 1 segments.  The code appends nothing when the current  *)
(* point is off the start by at most 1e-3 on both axes.                    *)
(***************************************************************************)
C1_AsStated ==
    [][(AtCommand("Z") /\ OpenWithSegments
          /\ (current_x # subpath_start_x \/ current_y # subpath_start_y))
       => /\ EmitsOne
          /\ LastOf(subpaths').closed
          /\ Len(LastOf(subpaths').outline.segments) = Len(current_segments) + 1
      ]_vars

(***************************************************************************)
(* C1 (amended): when Z is executed on an open subpath with n >= 1         *)
(* segments whose current point is more than 1e-3 source units from the    *)
(* subpath start on some axis, exactly one segment ending at the start is  *)
(* appended: the subpath is emitted closed, with n + 1 segments of which   *)
(* the first n end where the accumulated ones end and the last ends at the *)
(* start.  "M 0,0 L 100,0 L 100,100 L 0,100 Z" yields exactly one subpath, *)
(* start (0,0), a Line outline with 4 segments, closed.                    *)
(***************************************************************************)
C1_CloseAppendsSegment ==
    /\ [][(AtCommand("Z") /\ OpenWithSegments
             /\ ~(Within(current_x, subpath_start_x)
                    /\ Within(current_y, subpath_start_y)))
          => /\ EmitsOne
             /\ LET sp == LastOf(subpaths')
                    n == Len(current_segments)
                IN /\ sp.closed
                   /\ sp.start = Native(subpath_start_x, subpath_start_y)
                   /\ Len(sp.outline.segments) = n + 1
                   /\ \A k \in 1..n :
                         EndOf(sp.outline.segments[k]) =
                            Native(current_segments[k].x, current_segments[k].y)
                   /\ EndOf(sp.outline.segments[n + 1]) = sp.start
         ]_vars
    /\ []((tokens = RectPath /\ ret.tag = "Ok")
          => /\ Len(ret.subpaths) = 1
             /\ ret.subpaths[1].start = [x |-> 0, y |-> 0]
             /\ ret.subpaths[1].outline.variant = "Line"
             /\ Len(ret.subpaths[1].outline.segments) = 4
             /\ ret.subpaths[1].closed)

C1_Witness ==
    /\ tokens = RectPath
    /\ ret.tag = "Ok"
    /\ Len(ret.subpaths) = 1
    /\ Len(ret.subpaths[1].outline.segments) = 4
    /\ ret.subpaths[1].outline.segments[4].end = [x |-> 0, y |-> 0]

(***************************************************************************)
(* C2: when M/m is executed, a subpath that is open with >= 1 segment is   *)
(* emitted first, unclosed, with exactly the segments accumulated so far;  *)
(* the first coordinate pair becomes the new start and the current point;  *)
(* every further pair before the next letter appends one line segment to   *)
(* the new subpath, each relative to the running current point for m.      *)
(***************************************************************************)
PairX(j) == Operand(2 * j - 1)
PairY(j) == Operand(2 * j)

RECURSIVE SumPairX(_)
SumPairX(j) == IF j = 0 THEN 0 ELSE PairX(j) + SumPairX(j - 1)
RECURSIVE SumPairY(_)
SumPairY(j) == IF j = 0 THEN 0 ELSE PairY(j) + SumPairY(j - 1)

\* The point that the j-th coordinate pair of the command at i denotes.
PointX(j) == IF tokens[i + 1].cmd \in LowerLetters
             THEN current_x + SumPairX(j) ELSE PairX(j)
PointY(j) == IF tokens[i + 1].cmd \in LowerLetters
             THEN current_y + SumPairY(j) ELSE PairY(j)

C2_MoveFlushesAndDrawsLines ==
    [][AtCommand("M")
       => /\ OpenWithSegments
             => /\ EmitsOne
                /\ LET sp == LastOf(subpaths')
                   IN /\ ~sp.closed
                      /\ sp.start = Native(subpath_start_x, subpath_start_y)
                      /\ Len(sp.outline.segments) = Len(current_segments)
                      /\ \A k \in 1..Len(current_segments) :
                            EndOf(sp.outline.segments[k]) =
                               Native(current_segments[k].x, current_segments[k].y)
          /\ ret'.tag = "None"
             => LET np == NumbersFrom(i + 1) \div 2
                    base == IF OpenWithSegments THEN 0 ELSE Len(current_segments)
                IN /\ np >= 1
                   /\ has_start'
                   /\ subpath_start_x' = PointX(1)
                   /\ subpath_start_y' = PointY(1)
                   /\ current_x' = PointX(np)
                   /\ current_y' = PointY(np)
                   /\ Len(current_segments') = base + np - 1
                   /\ \A j \in 2..np :
                         LET seg == current_segments'[base + j - 1]
                         IN seg.kind = "Line" /\ seg.x = PointX(j) /\ seg.y = PointY(j)
      ]_vars

\* "M 0,0 L 30,30 m 10,0 0,10 -10,0" after the m: one subpath flushed
\* unclosed, the new one starts at (40,30) and has two lines, to (30,40).
C2_Witness ==
    /\ last_command = "M"
    /\ ret.tag = "None"
    /\ Len(subpaths) = 1
    /\ ~subpaths[1].closed
    /\ Len(subpaths[1].outline.segments) = 1
    /\ subpath_start_x = 40 * Res /\ subpath_start_y = 30 * Res
    /\ Len(current_segments) = 2
    /\ current_x = 30 * Res /\ current_y = 40 * Res

(***************************************************************************)
(* C3: every emitted subpath's outline is all-line or all-bezier.  If an   *)
(* accumulated segment is cubic the outline is Bezier with the same        *)
(* segments in the same order, every line (the closing line of Z too) as a *)
(* bezier with control1 = control2 = end; otherwise the outline is Line.   *)
(***************************************************************************)
IsLineSegment(b) == DOMAIN b = {"end"}
IsBezierSegment(b) == DOMAIN b = {"control1", "control2", "end"}

Homogeneous(sp) ==
    \/ /\ sp.outline.variant = "Line"
       /\ \A k \in 1..Len(sp.outline.segments) : IsLineSegment(sp.outline.segments[k])
    \/ /\ sp.outline.variant = "Bezier"
       /\ \A k \in 1..Len(sp.outline.segments) : IsBezierSegment(sp.outline.segments[k])

\* b is the emitted form, in a Bezier outline, of the accumulated segment seg.
BezierFormOf(b, seg) ==
    /\ IsBezierSegment(b)
    /\ b.end = Native(seg.x, seg.y)
    /\ IF seg.kind = "Cubic"
       THEN /\ b.control1 = Native(seg.c1x, seg.c1y)
            /\ b.control2 = Native(seg.c2x, seg.c2y)
       ELSE b.control1 = b.end /\ b.control2 = b.end

C3_OutlineHomogeneous ==
    /\ [](\A k \in 1..Len(subpaths) : Homogeneous(subpaths[k]))
    /\ [][Len(subpaths') > Len(subpaths)
          => /\ EmitsOne
             /\ LET sp == LastOf(subpaths')
                    out == sp.outline.segments
                    n == Len(current_segments)
                    anyCubic == \E k \in 1..n : current_segments[k].kind = "Cubic"
                IN /\ Len(out) \in {n, n + 1}
                   /\ Len(out) = n + 1 => AtCommand("Z")
                   /\ anyCubic
                      => /\ sp.outline.variant = "Bezier"
                         /\ \A k \in 1..n : BezierFormOf(out[k], current_segments[k])
                         /\ Len(out) = n + 1
                            => /\ IsBezierSegment(out[n + 1])
                               /\ out[n + 1].end = sp.start
                               /\ out[n + 1].control1 = sp.start
                               /\ out[n + 1].control2 = sp.start
                   /\ ~anyCubic
                      => /\ sp.outline.variant = "Line"
                         /\ \A k \in 1..Len(out) : IsLineSegment(out[k])
                         /\ \A k \in 1..n :
                               out[k].end =
                                  Native(current_segments[k].x, current_segments[k].y)
         ]_vars

\* A closed Bezier subpath holding a real cubic, a promoted line and the
\* promoted closing line ("M 0,0 C .. L 50,50 Z").
C3_Witness ==
    \E k \in 1..Len(subpaths) :
       LET out == subpaths[k].outline.segments
       IN /\ subpaths[k].outline.variant = "Bezier"
          /\ subpaths[k].closed
          /\ Len(out) = 3
          /\ out[1].control1 # out[1].end
          /\ out[2].control1 = out[2].end /\ out[2].control2 = out[2].end
          /\ out[3].control1 = subpaths[k].start /\ out[3].end = subpaths[k].start

(***************************************************************************)
(* C4: the control1 of an S/s segment is the reflection of the remembered  *)
(* control point through the current point (2 * current - last_control)    *)
(* when the command executed before this S was C or S, and the current     *)
(* point after any other command (M, L, H, V, Q, T, A, Z) and at the start *)
(* of the path.  The current point and the remembered control point are    *)
(* those at the segment's operand group.  For "M 0,0 C 10,0 20,10 20,20    *)
(* S 40,40 40,20" the control1 of the S segment is (20, 30).               *)
(***************************************************************************)
C4_SmoothReflection ==
    /\ [][AtCommand("S")
          => LET n == Len(current_segments)
             IN \A g \in 1..(Len(current_segments') - n) :
                   LET seg == current_segments'[n + g]
                       bx == IF g = 1 THEN current_x ELSE current_segments'[n + g - 1].x
                       by == IF g = 1 THEN current_y ELSE current_segments'[n + g - 1].y
                       lx == IF g = 1 THEN last_control_x
                             ELSE current_segments'[n + g - 1].c2x
                       ly == IF g = 1 THEN last_control_y
                             ELSE current_segments'[n + g - 1].c2y
                   IN /\ seg.kind = "Cubic"
                      /\ IF last_command \in {"C", "S"}
                         THEN seg.c1x = 2 * bx - lx /\ seg.c1y = 2 * by - ly
                         ELSE seg.c1x = bx /\ seg.c1y = by
         ]_vars
    /\ []((tokens = SmoothPath /\ last_command = "S")
          => /\ Len(current_segments) = 2
             /\ current_segments[2].c1x = 20 * Res
             /\ current_segments[2].c1y = 30 * Res)

C4_Witness ==
    /\ tokens = SmoothPath
    /\ ret.tag = "Ok"
    /\ last_command = "S"
    /\ current_segments[2].c1x = 20 * Res
    /\ current_segments[2].c1y = 30 * Res

(***************************************************************************)
(* C5: an A/a command whose last operand group has 1 to 6 numbers (at the  *)
(* end of the input or before another letter) makes the call return a      *)
(* ParseError; it never aborts or indexes past the end of the tokens.      *)
(***************************************************************************)
C5_ShortArcIsParseError ==
    [][(AtCommand("A") /\ NumbersFrom(i + 1) % 7 # 0) => ret'.tag = "Err"]_vars

(***************************************************************************)
(* C6: a C, S, Q or T command (either case) whose last operand group is    *)
(* incomplete (fewer numbers than 6, 4, 4, 2) makes the call return a      *)
(* ParseError and no subpaths.                                             *)
(***************************************************************************)
C6_ShortCurveIsParseError ==
    [][/\ (AtCommand("C") /\ NumbersFrom(i + 1) % 6 # 0) => ret'.tag = "Err"
       /\ (AtCommand("S") /\ NumbersFrom(i + 1) % 4 # 0) => ret'.tag = "Err"
       /\ (AtCommand("Q") /\ NumbersFrom(i + 1) % 4 # 0) => ret'.tag = "Err"
       /\ (AtCommand("T") /\ NumbersFrom(i + 1) % 2 # 0) => ret'.tag = "Err"
       /\ ret'.tag = "Err" => ret'.subpaths = <<>>
      ]_vars

\* A curve command with one complete group and a dangling number at the end
\* of the input, after a subpath was already flushed.
C6_Witness ==
    /\ ret.tag = "Err"
    /\ Len(subpaths) >= 1
    /\ Len(tokens) >= 4
    /\ tokens[Len(tokens)].type = "Number"
    /\ \E k \in 1..Len(tokens) - 1 :
          /\ tokens[k].cmd \in {"C", "c", "S", "s", "Q", "q", "T", "t"}
          /\ NumbersFrom(k) = Len(tokens) - k
          /\ NumbersFrom(k) \in {3, 5, 7, 8}

(***************************************************************************)
(* C7: when the tokens are exhausted while a subpath is open with >= 1     *)
(* segment, it is emitted as the last returned subpath, unclosed; a        *)
(* subpath is emitted closed only by a Z.                                  *)
(***************************************************************************)
C7_EndOfInputFlush ==
    [][/\ (Running /\ i >= Len(tokens))
          => /\ ret'.tag = "Ok"
             /\ ret'.subpaths = subpaths'
             /\ IF OpenWithSegments
                THEN /\ EmitsOne
                     /\ LET sp == LastOf(ret'.subpaths)
                        IN /\ ~sp.closed
                           /\ sp.start = Native(subpath_start_x, subpath_start_y)
                           /\ Len(sp.outline.segments) = Len(current_segments)
                ELSE subpaths' = subpaths
       /\ Len(subpaths') >= Len(subpaths)
       /\ SubSeq(subpaths', 1, Len(subpaths)) = subpaths
       /\ \A k \in (Len(subpaths) + 1)..Len(subpaths') :
             subpaths'[k].closed => AtCommand("Z")
      ]_vars

\* "M .. Z M .. L .." at the end: a closed subpath, then the flushed one.
C7_Witness ==
    /\ ret.tag = "Ok"
    /\ Len(ret.subpaths) = 2
    /\ ret.subpaths[1].closed
    /\ ~ret.subpaths[2].closed
    /\ has_start
    /\ Len(ret.subpaths[2].outline.segments) = Len(current_segments)
    /\ last_command # "Z"

(***************************************************************************)
(* C8: after any Z/z the current point is the start point of the subpath   *)
(* that was open and no subpath is open until the next M/m; a relative m   *)
(* after Z starts the next subpath at that start plus (dx, dy).            *)
(***************************************************************************)
C8_StateAfterClose ==
    [][/\ AtCommand("Z")
          => /\ current_x' = subpath_start_x
             /\ current_y' = subpath_start_y
             /\ subpath_start_x' = subpath_start_x
             /\ subpath_start_y' = subpath_start_y
             /\ ~has_start'
       /\ (~has_start /\ has_start') => AtCommand("M")
       /\ (AtCommand("M") /\ last_command = "Z" /\ tokens[i + 1].cmd = "m"
             /\ ret'.tag = "None")
          => /\ subpath_start_x' = subpath_start_x + Operand(1)
             /\ subpath_start_y' = subpath_start_y + Operand(2)
      ]_vars

\* "M 0,0 L 100,100 Z m 10,10": the new subpath starts at (10,10), not at
\* (110,110).
C8_Witness ==
    /\ last_command = "M"
    /\ has_start
    /\ Len(subpaths) = 1
    /\ subpaths[1].closed
    /\ Len(subpaths[1].outline.segments) = 2
    /\ subpaths[1].outline.segments[1].end = Native(100 * Res, 100 * Res)
    /\ subpath_start_x = 10 * Res
    /\ subpath_start_y = 10 * Res

(***************************************************************************)
(* C9: when Z is executed on an open subpath with >= 1 segment whose       *)
(* current point is within 1e-3 source units of the start on both axes, no *)
(* closing segment is appended: the subpath is emitted closed with exactly *)
(* the accumulated segments.  "M 0,0 L 10,0 L 0,0 Z" gives 2 segments.     *)
(***************************************************************************)
C9_CloseWithinTolerance ==
    /\ [][(AtCommand("Z") /\ OpenWithSegments
             /\ Within(current_x, subpath_start_x)
             /\ Within(current_y, subpath_start_y))
          => /\ EmitsOne
             /\ LET sp == LastOf(subpaths')
                IN /\ sp.closed
                   /\ Len(sp.outline.segments) = Len(current_segments)
                   /\ \A k \in 1..Len(current_segments) :
                         EndOf(sp.outline.segments[k]) =
                            Native(current_segments[k].x, current_segments[k].y)
         ]_vars
    /\ []((tokens = BackToStartPath /\ ret.tag = "Ok")
          => /\ Len(ret.subpaths) = 1
             /\ ret.subpaths[1].closed
             /\ Len(ret.subpaths[1].outline.segments) = 2)

\* "M 0,0 L 10,0 L 0.001,-0.001 z": closed with 2 segments, the current
\* point was 1/1000 off the start on both axes.
C9_Witness ==
    /\ ret.tag = "Ok"
    /\ Len(ret.subpaths) = 1
    /\ ret.subpaths[1].closed
    /\ Len(ret.subpaths[1].outline.segments) = 2
    /\ Len(tokens) = 10
    /\ tokens[8].num = Res \div 1000
    /\ tokens[9].num = -(Res \div 1000)

(***************************************************************************)
(* C10: for an input made only of command letters, separators and          *)
(* well-formed numbers, tokenize returns, in input order, one Command per  *)
(* letter and one Number (with the literal's value) per numeric literal,   *)
(* and nothing for a separator; a sign or '.' starts a new number when it  *)
(* abuts the preceding number or command ("10-5", "M1,2").  The literals   *)
(* of an input are its longest matches: a digit does not start a new       *)
(* number after a number, and a '.' does so only after a number that       *)
(* already has a '.' or an exponent.                                       *)
(***************************************************************************)
HasAny(text, set) == \E k \in 1..Len(text) : text[k] \in set

LongestMatches(ls) ==
    \A k \in 1..(Len(ls) - 1) :
       (ls[k].kind = "number" /\ ls[k + 1].kind = "number")
       => \/ ls[k + 1].text[1] \in {"-", "+"}
          \/ /\ ls[k + 1].text[1] = "."
             /\ HasAny(ls[k].text, {".", "e", "E"})

WrittenFromGrammar(ls) ==
    /\ \A k \in 1..Len(ls) : ls[k].kind \in {"command", "separator", "number"}
    /\ LongestMatches(ls)

RECURSIVE ExpectedTokens(_)
ExpectedTokens(ls) ==
    IF ls = <<>> THEN <<>>
    ELSE LET l == Head(ls)
             rest == ExpectedTokens(Tail(ls))
         IN CASE l.kind = "command" ->
                    <<[type |-> "Command", cmd |-> l.text[1], num |-> 0]>> \o rest
              [] l.kind = "number" ->
                    <<[type |-> "Number", cmd |-> " ", num |-> l.value]>> \o rest
              [] OTHER -> rest

C10_TokenizerOutput ==
    (pc = "tokenize" \/ pos > 0) /\ WrittenFromGrammar(literals)
    => /\ ret.tag = "None"
       /\ Len(tokens) <= Len(ExpectedTokens(literals))
       /\ tokens = SubSeq(ExpectedTokens(literals), 1, Len(tokens))
       /\ pc = "parse_tokens" => tokens = ExpectedTokens(literals)

\* "10-5" tokenized: 10 and -5.
C10_Witness ==
    /\ d = <<"1", "0", "-", "5">>
    /\ pc = "parse_tokens"
    /\ pos = 4
    /\ tokens = <<[type |-> "Number", cmd |-> " ", num |-> 10 * Res],
                  [type |-> "Number", cmd |-> " ", num |-> -5 * Res]>>

(***************************************************************************)
(* Vocabulary of the properties on path strings.                           *)
(***************************************************************************)
\* c is a command letter, a separator or a number-start character.
StartsToken(c) ==
    c \in {"M", "m", "L", "l", "H", "h", "V", "v", "C", "c", "S", "s", "Q", "q",
           "T", "t", "A", "a", "Z", "z", " ", "\t", "\n", "\r", ",",
           "-", "+", ".", "0", "1", "2", "3", "4", "5", "6", "7", "8", "9"}

HasStray(t) == \E k \in 1..Len(t) : ~StartsToken(t[k])

\* The 0-based offset of the first character of t that starts no token.
FirstStray(t) ==
    CHOOSE k \in 0..(Len(t) - 1) :
       /\ ~StartsToken(t[k + 1])
       /\ \A j \in 1..k : StartsToken(t[j])

\* parse_tokens has interpreted nothing: its locals are as at its entry.
NothingInterpreted ==
    /\ i = 0
    /\ subpaths = <<>>
    /\ current_segments = <<>>
    /\ ~has_start
    /\ last_command = " "
    /\ current_x = 0 /\ current_y = 0

\* The 0-based offset in the text of ls at which literal k starts.
OffsetOf(ls, k) == Len(TextOf(SubSeq(ls, 1, k - 1)))

\* Literal k of ls is a character that starts no token and is not read as
\* part of a number (an e or E directly after a number without an exponent
\* is), and the literals before it are well-formed.
StrayAt(ls, k) ==
    /\ ls[k].kind = "other"
    /\ ~StartsToken(ls[k].text[1])
    /\ WrittenFromGrammar(SubSeq(ls, 1, k - 1))
    /\ ~(/\ k > 1
         /\ ls[k - 1].kind = "number"
         /\ ls[k].text[1] \in {"e", "E"}
         /\ ~HasAny(ls[k - 1].text, {"e", "E"}))

(***************************************************************************)
(* C11 (as stated): if the input contains a character that is neither a    *)
(* command letter, a separator nor a number-start character, tokenize does *)
(* not return its tokens: it fails with a ParseError positioned at the     *)
(* first such character, and no token is interpreted.  The code reads an   *)
(* e or E inside a number ("1e1" tokenizes), and a malformed number before *)
(* the character is reported first ("- #" fails at 1, not at 2).           *)
(***************************************************************************)
C11_AsStated ==
    HasStray(d)
    => /\ pc = "tokenize"
       /\ NothingInterpreted
       /\ ret.tag # "None"
          => ret.tag = "Err" /\ ret.position = FirstStray(d)

(***************************************************************************)
(* C11 (amended): if the input contains a character that is neither a      *)
(* command letter, a separator nor a number-start character and that is    *)
(* not read as part of a numeric literal, and the text before the first    *)
(* such character is well-formed, then tokenize never returns its tokens,  *)
(* it never reads past that character, the only result it gives is a       *)
(* ParseError whose position is the offset of that character, and          *)
(* parse_to_subpaths gives that error without interpreting any token that  *)
(* preceded the character.                                                 *)
(***************************************************************************)
C11_UnrecognizedCharacter ==
    \A k \in 1..Len(literals) :
       StrayAt(literals, k)
       => /\ pc = "tokenize"
          /\ pos <= OffsetOf(literals, k)
          /\ NothingInterpreted
          /\ Len(tokens) <= Len(ExpectedTokens(SubSeq(literals, 1, k - 1)))
          /\ ret.tag # "None"
             => /\ ret.tag = "Err"
                /\ ret.position = OffsetOf(literals, k)
                /\ pos = OffsetOf(literals, k)
                /\ tokens = ExpectedTokens(SubSeq(literals, 1, k - 1))

\* "Z 7#": the error is at offset 3; the tokens Z and 7 were built and
\* never interpreted.
C11_Witness ==
    /\ d = <<"Z", " ", "7", "#">>
    /\ ret.tag = "Err"
    /\ ret.position = 3
    /\ Len(tokens) = 2
    /\ NothingInterpreted

\* Literal k of ls is a malformed number that stands alone: it starts with
\* a number-start character, the literals before it are well-formed, and
\* no number abuts it on either side.
MalformedAt(ls, k) ==
    /\ ls[k].kind = "other"
    /\ ls[k].text[1] \in {"-", "+", ".", "0", "1", "2", "3", "4", "5", "6", "7",
                          "8", "9"}
    /\ WrittenFromGrammar(SubSeq(ls, 1, k - 1))
    /\ k > 1 => ls[k - 1].kind \in {"command", "separator"}
    /\ k < Len(ls) => ls[k + 1].kind \in {"command", "separator"}

(***************************************************************************)
(* C12: a numeric literal that is not a valid number (a lone sign, a lone  *)
(* '.', an exponent marker with no exponent digits) makes tokenize fail    *)
(* with a ParseError whose position is the offset of a character of that   *)
(* literal, never an offset past its end.  The code reports the position   *)
(* after the literal's last character.                                     *)
(***************************************************************************)
C12_PositionInsideLiteral ==
    \A k \in 1..Len(literals) :
       MalformedAt(literals, k)
       => /\ pc = "tokenize"
          /\ ret.tag # "None"
             => /\ ret.tag = "Err"
                /\ ret.position >= OffsetOf(literals, k)
                /\ ret.position < OffsetOf(literals, k) + Len(literals[k].text)

(***************************************************************************)
(* C13: a Number token met where a command letter is expected makes the    *)
(* call return a ParseError whose position is the index of that token, and *)
(* the step interprets nothing: no segment, no subpath, no move of the     *)
(* current point.  This happens only at the very start of the input or     *)
(* directly after Z/z (every other command reads the numbers after it as   *)
(* its operands), and nothing is executed after the error.                 *)
(***************************************************************************)
NumberWhereLetterExpected ==
    /\ pc = "parse_tokens"
    /\ ret.tag = "None"
    /\ i < Len(tokens)
    /\ tokens[i + 1].type = "Number"

C13_BareNumber ==
    /\ [](NumberWhereLetterExpected
          => \/ i = 0
             \/ tokens[i].type = "Command" /\ tokens[i].cmd \in {"Z", "z"})
    /\ [][/\ NumberWhereLetterExpected
             => /\ ret'.tag = "Err"
                /\ ret'.position = i
                /\ ret'.subpaths = <<>>
                /\ UNCHANGED <<subpaths, current_segments, current_x, current_y,
                               has_start, last_command>>
          /\ ret.tag = "Err" => ret' = ret
         ]_vars

\* "M0,0L5,5Z7 7": the subpath is closed by Z, the 7 at token 7 is the
\* error, and no third segment was drawn to (7,7).
C13_Witness ==
    /\ literals = NumbersAfterCloseText
    /\ ret.tag = "Err"
    /\ ret.position = 7
    /\ Len(subpaths) = 1
    /\ subpaths[1].closed
    /\ Len(subpaths[1].outline.segments) = 2
    /\ current_segments = <<>>

(***************************************************************************)
(* C14: in an A/a command, an operand group whose endpoint is the current  *)
(* point appends no segment, whatever its radii; a group with rx = 0 or    *)
(* ry = 0 and another endpoint appends exactly one line segment ending at  *)
(* the endpoint (a proper arc appends cubics only); after the command the  *)
(* current point is the endpoint of the last group.                        *)
(***************************************************************************)
ArcGroups == NumbersFrom(i + 1) \div 7

RECURSIVE ArcSumX(_)
ArcSumX(g) == IF g = 0 THEN 0 ELSE Operand(7 * g - 1) + ArcSumX(g - 1)
RECURSIVE ArcSumY(_)
ArcSumY(g) == IF g = 0 THEN 0 ELSE Operand(7 * g) + ArcSumY(g - 1)

\* The endpoint of the g-th operand group; group 0 ends at the current point.
ArcEndX(g) == IF g = 0 THEN current_x
              ELSE IF tokens[i + 1].cmd = "a" THEN current_x + ArcSumX(g)
              ELSE Operand(7 * g - 1)
ArcEndY(g) == IF g = 0 THEN current_y
              ELSE IF tokens[i + 1].cmd = "a" THEN current_y + ArcSumY(g)
              ELSE Operand(7 * g)

ArcOnCurrent(g) == ArcEndX(g) = ArcEndX(g - 1) /\ ArcEndY(g) = ArcEndY(g - 1)
ArcFlat(g) ==
    ~ArcOnCurrent(g) /\ (Operand(7 * g - 6) = 0 \/ Operand(7 * g - 5) = 0)
ArcProper(g) == ~ArcOnCurrent(g) /\ ~ArcFlat(g)

\* The endpoints of the zero-radius groups among the first g, in order.
RECURSIVE FlatEnds(_)
FlatEnds(g) ==
    IF g = 0 THEN <<>>
    ELSE FlatEnds(g - 1)
           \o (IF ArcFlat(g) THEN <<<<ArcEndX(g), ArcEndY(g)>>>> ELSE <<>>)

RECURSIVE LineEnds(_)
LineEnds(segs) ==
    IF segs = <<>> THEN <<>>
    ELSE (IF Head(segs).kind = "Line" THEN <<<<Head(segs).x, Head(segs).y>>>>
          ELSE <<>>) \o LineEnds(Tail(segs))

C14_ArcDegeneracy ==
    [][(AtCommand("A") /\ ret'.tag = "None")
       => LET n == Len(current_segments)
              new == SubSeq(current_segments', n + 1, Len(current_segments'))
          IN /\ NumbersFrom(i + 1) = 7 * ArcGroups
             /\ SubSeq(current_segments', 1, n) = current_segments
             /\ LineEnds(new) = FlatEnds(ArcGroups)
             /\ (\A g \in 1..ArcGroups : ~ArcProper(g)) => Len(new) = Len(LineEnds(new))
             /\ (\E g \in 1..ArcGroups : ArcProper(g)) => Len(new) > Len(LineEnds(new))
             /\ current_x' = ArcEndX(ArcGroups)
             /\ current_y' = ArcEndY(ArcGroups)
      ]_vars

\* "M 0,0 A 5 0 0 0 0 20,20 10 0 0 0 1 20,20": the first group is a line to
\* (20,20), the second ends where it starts and appends nothing.
C14_Witness ==
    /\ last_command = "A"
    /\ ret.tag = "None"
    /\ Len(tokens) = 18
    /\ tokens[5].num = 5 * Res /\ tokens[6].num = 0
    /\ current_segments = <<Line(20 * Res, 20 * Res)>>
    /\ current_x = 20 * Res /\ current_y = 20 * Res

(***************************************************************************)
(* C15: a path and its relative form (every command in lower case, its     *)
(* coordinates rewritten as differences from the current point at their    *)
(* operand group) give the same result: the same subpaths, with the same   *)
(* starts, segments and closed flags, or the same failure.  Both           *)
(* "M 0,0 L 100,0 L 100,100 L 0,100 Z" and "M 0,0 l 100,0 l 0,100 l -100,0 *)
(* z" give one closed subpath from (0,0) with the same four line segments. *)
(***************************************************************************)
SquareOutline ==
    <<[start |-> [x |-> 0, y |-> 0],
       outline |-> [variant |-> "Line",
                    segments |-> <<[end |-> [x |-> 2646, y |-> 0]],
                                   [end |-> [x |-> 2646, y |-> 2646]],
                                   [end |-> [x |-> 0, y |-> 2646]],
                                   [end |-> [x |-> 0, y |-> 0]]>>],
       closed |-> TRUE]>>

C15_RelativeAbsoluteEquivalence ==
    /\ (Len(returned) = 1 /\ ret.tag # "None") => ret = returned[1]
    /\ (tokens \in {RectPath, RelativeRectPath} /\ ret.tag # "None")
       => ret.tag = "Ok" /\ ret.subpaths = SquareOutline

\* The rectangle parsed as "m 0,0 l 100,0 l 0,100 l -100,0 z" after it was
\* parsed in its absolute form, with the same result.
C15_Witness ==
    /\ Len(returned) = 1
    /\ returned[1].tag = "Ok"
    /\ returned[1].subpaths = SquareOutline
    /\ ret = returned[1]
    /\ Len(tokens) = 13
    /\ tokens[1].cmd = "m"
    /\ tokens[10].cmd = "l"
    /\ tokens[11].num = -100 * Res
    /\ tokens[12].num = 0
    /\ tokens[13].cmd = "z"

(***************************************************************************)
(* C16: a C/c command followed by k complete groups of three coordinate    *)
(* pairs appends exactly k cubic segments, control1, control2 and end in   *)
(* that order, all three relative to the current point at the start of the *)
(* group for c, and leaves the current point at the last group's end.  A   *)
(* path with no Z is returned unclosed: "M 0,0 C 50,0 50,100 100,100"      *)
(* gives one subpath with a Bezier outline of one segment, closed = false. *)
(***************************************************************************)
\* The base that the coordinates of group g of the command at i are added to.
GroupBaseX(g) ==
    IF tokens[i + 1].cmd \in UpperLetters THEN 0
    ELSE IF g = 1 THEN current_x
    ELSE current_segments'[Len(current_segments) + g - 1].x
GroupBaseY(g) ==
    IF tokens[i + 1].cmd \in UpperLetters THEN 0
    ELSE IF g = 1 THEN current_y
    ELSE current_segments'[Len(current_segments) + g - 1].y

NoClose == \A k \in 1..Len(tokens) : tokens[k].cmd \notin {"Z", "z"}

C16_CubicCommand ==
    /\ [][AtCommand("C")
          => LET n == Len(current_segments)
                 k == NumbersFrom(i + 1) \div 6
             IN /\ NumbersFrom(i + 1) % 6 = 0 <=> ret'.tag = "None"
                /\ ret'.tag = "None"
                   => /\ Len(current_segments') = n + k
                      /\ SubSeq(current_segments', 1, n) = current_segments
                      /\ \A g \in 1..k :
                            LET seg == current_segments'[n + g]
                                bx == GroupBaseX(g)
                                by == GroupBaseY(g)
                            IN /\ seg.kind = "Cubic"
                               /\ seg.c1x = bx + Operand(6 * g - 5)
                               /\ seg.c1y = by + Operand(6 * g - 4)
                               /\ seg.c2x = bx + Operand(6 * g - 3)
                               /\ seg.c2y = by + Operand(6 * g - 2)
                               /\ seg.x = bx + Operand(6 * g - 1)
                               /\ seg.y = by + Operand(6 * g)
                      /\ k >= 1 => /\ current_x' = current_segments'[n + k].x
                                   /\ current_y' = current_segments'[n + k].y
                      /\ k = 0 => current_x' = current_x /\ current_y' = current_y
         ]_vars
    /\ []((ret.tag = "Ok" /\ NoClose)
          => \A k \in 1..Len(ret.subpaths) : ~ret.subpaths[k].closed)
    /\ []((tokens = BezierPath /\ ret.tag # "None")
          => /\ ret.tag = "Ok"
             /\ ret.subpaths =
                   <<[start |-> [x |-> 0, y |-> 0],
                      outline |->
                         [variant |-> "Bezier",
                          segments |-> <<[control1 |-> [x |-> 1323, y |-> 0],
                                          control2 |-> [x |-> 1323, y |-> 2646],
                                          end |-> [x |-> 2646, y |-> 2646]]>>],
                      closed |-> FALSE]>>)

\* "M 0,0 c 3,0 6,3 6,6 1,0 2,1 2,2" after the c: two cubics, the second
\* one relative to (6,6), the end of the first.
C16_Witness ==
    /\ last_command = "C"
    /\ ret.tag = "None"
    /\ tokens[4].cmd = "c"
    /\ Len(current_segments) = 2
    /\ current_segments[1] = Cubic(3 * Res, 0, 6 * Res, 3 * Res, 6 * Res, 6 * Res)
    /\ current_segments[2] = Cubic(7 * Res, 6 * Res, 8 * Res, 7 * Res, 8 * Res, 8 * Res)
    /\ current_x = 8 * Res /\ current_y = 8 * Res

(***************************************************************************)
(* C17: L/l appends one line segment per coordinate pair that follows; H/h *)
(* appends one per number, changing x only and keeping the current y; V/v  *)
(* appends one per number, changing y only and keeping the current x.  A   *)
(* lower-case operand is added to the current point, which after each      *)
(* appended segment is that segment's end.                                 *)
(***************************************************************************)
\* The segments that the step appends, given that it appends count of them.
Appended(count) ==
    /\ Len(current_segments') = Len(current_segments) + count
    /\ SubSeq(current_segments', 1, Len(current_segments)) = current_segments

NewSegment(g) == current_segments'[Len(current_segments) + g]

\* The current point after the step is the end of the last of count
\* appended segments, or unchanged when there is none.
EndsAtLast(count) ==
    IF count = 0 THEN current_x' = current_x /\ current_y' = current_y
    ELSE current_x' = NewSegment(count).x /\ current_y' = NewSegment(count).y

C17_LineCommands ==
    [][/\ (AtCommand("L") /\ ret'.tag = "None")
          => LET k == NumbersFrom(i + 1) \div 2
             IN /\ NumbersFrom(i + 1) = 2 * k
                /\ Appended(k)
                /\ EndsAtLast(k)
                /\ \A g \in 1..k :
                      /\ NewSegment(g).kind = "Line"
                      /\ NewSegment(g).x = GroupBaseX(g) + Operand(2 * g - 1)
                      /\ NewSegment(g).y = GroupBaseY(g) + Operand(2 * g)
       /\ AtCommand("H")
          => LET k == NumbersFrom(i + 1)
             IN /\ ret'.tag = "None"
                /\ Appended(k)
                /\ EndsAtLast(k)
                /\ current_y' = current_y
                /\ \A g \in 1..k :
                      /\ NewSegment(g).kind = "Line"
                      /\ NewSegment(g).x = GroupBaseX(g) + Operand(g)
                      /\ NewSegment(g).y = current_y
       /\ AtCommand("V")
          => LET k == NumbersFrom(i + 1)
             IN /\ ret'.tag = "None"
                /\ Appended(k)
                /\ EndsAtLast(k)
                /\ current_x' = current_x
                /\ \A g \in 1..k :
                      /\ NewSegment(g).kind = "Line"
                      /\ NewSegment(g).x = current_x
                      /\ NewSegment(g).y = GroupBaseY(g) + Operand(g)
      ]_vars

\* "M 3,6 l 5,5 -5,5 h -2 4 V 1 7" after the V: six lines, the last two
\* at x = 10.
C17_Witness ==
    /\ last_command = "V"
    /\ ret.tag = "None"
    /\ current_segments =
          <<Line(8 * Res, 11 * Res), Line(3 * Res, 16 * Res),
            Line(1 * Res, 16 * Res), Line(5 * Res, 16 * Res),
            Line(5 * Res, 1 * Res), Line(5 * Res, 7 * Res)>>
    /\ current_x = 5 * Res /\ current_y = 7 * Res

(***************************************************************************)
(* C18: Q/q with quadratic control point q and endpoint p, from the        *)
(* current point c, appends one cubic with control1 = c + 2/3 (q - c) and  *)
(* control2 = p + 2/3 (q - p), and remembers q, not a cubic control point. *)
(* T/t takes q = 2 c - (the remembered control point) when the command     *)
(* executed before it was Q or T, and q = c otherwise, converts in the     *)
(* same way and remembers its q.                                           *)
(***************************************************************************)
\* The current point at group g of the command at i: the end of the
\* segment appended for the group before.
GroupFromX(g) == IF g = 1 THEN current_x ELSE NewSegment(g - 1).x
GroupFromY(g) == IF g = 1 THEN current_y ELSE NewSegment(g - 1).y

\* seg is the cubic of the quadratic from (cx, cy) by (qx, qy) to (px, py).
IsElevated(seg, cx, cy, qx, qy, px, py) ==
    /\ seg.kind = "Cubic"
    /\ 3 * (seg.c1x - cx) = 2 * (qx - cx)
    /\ 3 * (seg.c1y - cy) = 2 * (qy - cy)
    /\ 3 * (seg.c2x - px) = 2 * (qx - px)
    /\ 3 * (seg.c2y - py) = 2 * (qy - py)
    /\ seg.x = px
    /\ seg.y = py

\* The quadratic control point of group g of a T/t command.
RECURSIVE SmoothQX(_)
SmoothQX(g) ==
    IF g = 0 THEN last_control_x
    ELSE IF last_command \in {"Q", "T"} THEN 2 * GroupFromX(g) - SmoothQX(g - 1)
    ELSE GroupFromX(g)
RECURSIVE SmoothQY(_)
SmoothQY(g) ==
    IF g = 0 THEN last_control_y
    ELSE IF last_command \in {"Q", "T"} THEN 2 * GroupFromY(g) - SmoothQY(g - 1)
    ELSE GroupFromY(g)

C18_QuadraticCommands ==
    [][/\ (AtCommand("Q") /\ ret'.tag = "None")
          => LET k == NumbersFrom(i + 1) \div 4
             IN /\ NumbersFrom(i + 1) = 4 * k
                /\ Appended(k)
                /\ EndsAtLast(k)
                /\ \A g \in 1..k :
                      IsElevated(NewSegment(g), GroupFromX(g), GroupFromY(g),
                                 GroupBaseX(g) + Operand(4 * g - 3),
                                 GroupBaseY(g) + Operand(4 * g - 2),
                                 GroupBaseX(g) + Operand(4 * g - 1),
                                 GroupBaseY(g) + Operand(4 * g))
                /\ k >= 1 => /\ last_control_x' = GroupBaseX(k) + Operand(4 * k - 3)
                             /\ last_control_y' = GroupBaseY(k) + Operand(4 * k - 2)
       /\ (AtCommand("T") /\ ret'.tag = "None")
          => LET k == NumbersFrom(i + 1) \div 2
             IN /\ NumbersFrom(i + 1) = 2 * k
                /\ Appended(k)
                /\ EndsAtLast(k)
                /\ \A g \in 1..k :
                      IsElevated(NewSegment(g), GroupFromX(g), GroupFromY(g),
                                 SmoothQX(g), SmoothQY(g),
                                 GroupBaseX(g) + Operand(2 * g - 1),
                                 GroupBaseY(g) + Operand(2 * g))
                /\ last_control_x' = SmoothQX(k)
                /\ last_control_y' = SmoothQY(k)
      ]_vars

\* "M 3,6 q 3,3 6,0 t 3,3": the Q cubic from (3,6) by (6,9) to (9,6), then
\* the T cubic by the reflected control point (12,3) to (12,9).
C18_Witness ==
    /\ last_command = "T"
    /\ ret.tag = "None"
    /\ Len(tokens) = 11
    /\ current_segments =
          <<Cubic(5 * Res, 8 * Res, 7 * Res, 8 * Res, 9 * Res, 6 * Res),
            Cubic(11 * Res, 4 * Res, 12 * Res, 5 * Res, 12 * Res, 9 * Res)>>
    /\ last_control_x = 12 * Res /\ last_control_y = 3 * Res

(***************************************************************************)
(* C19: to_fcm(v) is v / dpi * 25.4 * scale * 100 rounded to the nearest   *)
(* integer, a half going away from zero; for v = 96, dpi = 96, scale = 1   *)
(* it is 2540.  The result depends on v, dpi and scale only (not on the    *)
(* offsets, nor on the calls made before), so every call on the same value *)
(* gives the same integer.                                                 *)
(***************************************************************************)
\* r is the quotient num / den (den > 0) rounded to the nearest integer,
\* halves away from zero.
IsRounded(r, num, den) ==
    /\ 2 * Abs(r * den - num) <= den
    /\ 2 * Abs(r * den - num) = den => Abs(r * den) > Abs(num)

\* v / dpi * 25.4 * scale * 100 as a quotient of integers, v in 1/Res units.
NativeNum(v) == v * 254 * config.scale
NativeDen == config.dpi * (Res \div 10)

C19_UnitConversion ==
    /\ \A k \in 1..Len(fcm) :
          fcm[k].fn = "to_fcm" => IsRounded(fcm[k].x, NativeNum(svg.x), NativeDen)
    /\ \A k \in 1..Len(fcm) :
          (fcm[k].fn = "to_fcm" /\ svg.x = 96 * Res /\ config.dpi = 96
             /\ config.scale = 1)
          => fcm[k].x = 2540
    /\ \A j, k \in 1..Len(fcm) :
          (fcm[j].fn = "to_fcm" /\ fcm[k].fn = "to_fcm") => fcm[j].x = fcm[k].x

\* to_fcm called twice on 12 px at 96 dpi with an offset configured:
\* 317.5 rounds to 318 both times.
C19_Witness ==
    /\ Len(fcm) = 2
    /\ fcm[1] = [fn |-> "to_fcm", x |-> 318, y |-> 0]
    /\ fcm[2] = fcm[1]
    /\ svg.x = 12 * Res
    /\ config.dpi = 96 /\ config.scale = 1 /\ config.offset_x_mm = 1999

(***************************************************************************)
(* C20: point_to_fcm adds to each converted coordinate the configured      *)
(* offset in native units, offset_mm * 100 rounded to the nearest integer  *)
(* separately from the coordinate's own rounding: 1.999 mm adds 200 and    *)
(* -0.006 mm adds -1.  The code converts the offset with `as i32`, which   *)
(* drops the fraction: 1.999 mm adds 199 and -0.006 mm adds 0.             *)
(***************************************************************************)
\* offset_mm * 100 rounded, the offset being in thousandths of a millimetre.
OffsetRounded(offset) == CHOOSE r \in -300..300 : IsRounded(r, offset, 10)

C20_OffsetRounded ==
    \A k \in 1..Len(fcm) :
       fcm[k].fn = "point_to_fcm"
       => /\ IsRounded(fcm[k].x - OffsetRounded(config.offset_x_mm),
                       NativeNum(svg.x), NativeDen)
          /\ IsRounded(fcm[k].y - OffsetRounded(config.offset_y_mm),
                       NativeNum(svg.y), NativeDen)

(***************************************************************************)
(* C21.  Parse determinism: a call of parse_to_subpaths on a path string   *)
(* returns what the first call on that string returned, the same error or  *)
(* the same sequence of subpaths, whatever calls the parser has served in  *)
(* between (on the same string, on one that parses, on one that fails).    *)
(* SvgPathParser holds its configuration only, so a second parser with an  *)
(* equal configuration is the same value.                                  *)
(***************************************************************************)
CallReturned == pc \in {"tokenize", "parse_tokens"} /\ ret.tag # "None"

C21_ParseDeterminism ==
    (CallReturned /\ returned # <<>> /\ d = TextOf(literals))
    => ret = returned[1]

\* A third call, after one on another string that failed, returns the
\* subpaths that the first call returned.
C21_Witness ==
    /\ CallReturned
    /\ Len(returned) = 2
    /\ d = TextOf(literals)
    /\ returned[2].tag = "Err"
    /\ returned[1].tag = "Ok"
    /\ returned[1].subpaths # <<>>
    /\ ret = returned[1]

(***************************************************************************)
(* C22.  Isolation of concurrent parses: when two calls of the parser on   *)
(* different inputs run with their steps interleaved in any order, each    *)
(* call returns exactly what it returned when it ran alone.                *)
(***************************************************************************)
\* The number of the call on the thread that steps, once both run.
RunningCall == 3 - other_call.call

C22_ConcurrentIsolation ==
    (pc = "parse_tokens" /\ Len(returned) = 2)
    => /\ ret.tag # "None" => ret = returned[RunningCall]
       /\ other_call.locals.ret.tag # "None"
          => other_call.locals.ret = returned[other_call.call]

\* Both calls have returned subpaths with curves, each after it had waited
\* in the middle of its path while the other one stepped over a curve
\* command.
C22_Witness ==
    /\ pc = "parse_tokens"
    /\ Len(returned) = 2
    /\ tokens # other_call.tokens
    /\ ret.tag = "Ok"
    /\ other_call.locals.ret.tag = "Ok"
    /\ ret.subpaths # <<>>
    /\ other_call.locals.ret.subpaths # <<>>
    /\ \E k \in 1..Len(tokens) :
          tokens[k].type = "Command" /\ tokens[k].cmd \in {"S", "s"}
    /\ \E k \in 1..Len(other_call.tokens) :
          /\ other_call.tokens[k].type = "Command"
          /\ other_call.tokens[k].cmd \in {"S", "s"}

(***************************************************************************)
(* C23.  Registration marks: for every page size W x H,                    *)
(* calculate_mark_positions and get_fcm_alignment_marks return exactly 4   *)
(* marks in the order top-left, top-right, bottom-right, bottom-left, at   *)
(* (12.00, 13.98), (W - 12.00, 13.98), (W - 12.00, H - 13.98) and          *)
(* (12.00, H - 13.98) mm; the native points are mm * 100 rounded to the    *)
(* nearest integer.  For US Letter the first native mark is (1200, 1398),  *)
(* the top-right x is 203.9 mm and the bottom-right y 265.42 mm.           *)
(***************************************************************************)
\* The four corners in thousandths of a millimetre, clockwise from the top
\* left.
CornerX(k) == IF k \in {1, 4} THEN 12000 ELSE page.width_mm - 12000
CornerY(k) == IF k \in {1, 2} THEN 13980 ELSE page.height_mm - 13980

C23_RegistrationMarks ==
    \A c \in 1..Len(marks) :
       /\ Len(marks[c].result) = 4
       /\ marks[c].fn = "calculate_mark_positions"
          => /\ \A k \in 1..4 :
                   /\ marks[c].result[k].x_mm = CornerX(k)
                   /\ marks[c].result[k].y_mm = CornerY(k)
             /\ page.width_mm = 215900 => marks[c].result[2].x_mm = 203900
             /\ page.height_mm = 279400 => marks[c].result[3].y_mm = 265420
       /\ marks[c].fn = "get_fcm_alignment_marks"
          => /\ \A k \in 1..4 :
                   /\ IsRounded(marks[c].result[k].x, CornerX(k), 10)
                   /\ IsRounded(marks[c].result[k].y, CornerY(k), 10)
             /\ marks[c].result[1] = [x |-> 1200, y |-> 1398]

\* Both functions called on a page of 100.005 x 5.005 mm: the bottom-right
\* mark is at (88.005, -8.975) mm, which is (8801, -898) in native units.
C23_Witness ==
    /\ page = [width_mm |-> 100005, height_mm |-> 5005]
    /\ Len(marks) = 2
    /\ marks[1].fn = "calculate_mark_positions"
    /\ marks[1].result[3] = [x_mm |-> 88005, y_mm |-> -8975]
    /\ marks[2].fn = "get_fcm_alignment_marks"
    /\ marks[2].result[3] = [x |-> 8801, y |-> -898]


(***************************************************************************)
(* C24.  Cross-field consistency of produced files: every FcmFile that     *)
(* generate_fcm or svg_to_print_and_cut_fcm returns has file_type          *)
(* PrintAndCut, an alignment that is Some, with needed = true and exactly  *)
(* 4 marks, and print_to_cut = Some(true).                                 *)
(***************************************************************************)
C24_CrossFieldConsistency ==
    file.tag = "Ok" =>
        /\ file.cut_data.file_type = "PrintAndCut"
        /\ Len(file.cut_data.alignment) = 1
        /\ file.cut_data.alignment[1].needed = TRUE
        /\ Len(file.cut_data.alignment[1].marks) = 4
        /\ file.file_header.print_to_cut = <<TRUE>>

\* generate_fcm has returned a file whose piece has two paths.
C24_Witness ==
    /\ caller = "generate_fcm"
    /\ file.tag = "Ok"
    /\ Len(file.piece_table.pieces[1][2].paths) = 2

(***************************************************************************)
(* C25.  Piece geometry: when the path parses to at least one subpath, the *)
(* Piece of the returned file has width = max_x - min_x and                *)
(* height = max_y - min_y over the stored points of its paths, the         *)
(* translation of its transform is the centre of the bounding box of the   *)
(* parsed points, and on each axis the stored min + max is within 1 native *)
(* unit of 0.                                                              *)
(***************************************************************************)
StoredPoints(piece) ==
    UNION {VisitedPoints(piece.paths[k].shape) : k \in 1..Len(piece.paths)}

C25_PieceGeometry ==
    (file.tag = "Ok" /\ ret.tag = "Ok" /\ ret.subpaths # <<>>) =>
        LET piece == file.piece_table.pieces[1][2]
            P == StoredPoints(piece)
            b == Bounds(parse(ret).shapes)
            least_x == Least({p.x : p \in P})
            greatest_x == Greatest({p.x : p \in P})
            least_y == Least({p.y : p \in P})
            greatest_y == Greatest({p.y : p \in P})
        IN /\ piece.width = greatest_x - least_x
           /\ piece.height = greatest_y - least_y
           /\ piece.transform[1].tx = b.min_x + b.max_x
           /\ piece.transform[1].ty = b.min_y + b.max_y
           /\ Abs(least_x + greatest_x) <= 1
           /\ Abs(least_y + greatest_y) <= 1


(***************************************************************************)
(* C26.  All-or-nothing failure: when tokenizing or interpreting a path    *)
(* fails, parse_to_subpaths and parse return only the error; the subpaths  *)
(* flushed before the failing token are not in what the caller gets.       *)
(***************************************************************************)
C26_AllOrNothing ==
    ret.tag = "Err" =>
        /\ ret.subpaths = <<>>
        /\ parse(ret) = [tag |-> "Err", shapes |-> <<>>]

\* The call failed after it had flushed a closed subpath.
C26_Witness ==
    /\ ret.tag = "Err"
    /\ pc = "parse_tokens"
    /\ Len(subpaths) >= 1
    /\ subpaths[1].closed


(***************************************************************************)
(* C27.  Arc expansion: in an A/a command every operand group with         *)
(* non-zero radii and an endpoint other than the current point appends     *)
(* between 1 and 4 cubic segments, as many as the arc's angular span has   *)
(* quarter turns, rounded up; the other groups append what C14 says.       *)
(***************************************************************************)
\* The angular span of the arc of a proper group, in quarter turns, rounded
\* up: half a turn when the radius is at most half the chord; else the
\* small arc of the chord with large_arc = 0 and the rest of the circle with
\* large_arc = 1.
ArcSpanQuarters(g) ==
    LET r == Abs(Operand(7 * g - 6))
        large_arc == Operand(7 * g - 3) # 0
        dx == Abs(ArcEndX(g) - ArcEndX(g - 1))
        dy == Abs(ArcEndY(g) - ArcEndY(g - 1))
    IN CASE (dx = 0 \/ dy = 0) /\ 2 * r <= dx + dy -> 2
         [] dx = r /\ dy = r -> IF large_arc THEN 3 ELSE 1
         [] dy = 0 /\ dx < r -> IF large_arc THEN 4 ELSE 1

RECURSIVE ArcCurves(_)
ArcCurves(g) ==
    IF g = 0 THEN 0
    ELSE ArcCurves(g - 1) + (IF ArcProper(g) THEN ArcSpanQuarters(g) ELSE 0)

C27_ArcExpansion ==
    [][(AtCommand("A") /\ ret'.tag = "None")
       => LET n == Len(current_segments)
              new == SubSeq(current_segments', n + 1, Len(current_segments'))
          IN /\ \A g \in 1..ArcGroups :
                   ArcProper(g) => ArcSpanQuarters(g) \in 1..4
             /\ Len(new) - Len(LineEnds(new)) = ArcCurves(ArcGroups)
      ]_vars


(***************************************************************************)
(* C29.  Reflection across repeated operand groups: when one S (or T)      *)
(* letter is followed by several operand groups, every group after the     *)
(* first takes as its reflected control point the reflection of the        *)
(* previous group's control2 (for T: of the previous group's quadratic     *)
(* control point) through the current point, whatever command preceded the *)
(* letter.                                                                 *)
(***************************************************************************)
\* The current point at the g-th operand group of the command at token i.
GroupStartX(g) ==
    IF g = 1 THEN current_x ELSE current_segments'[Len(current_segments) + g - 1].x
GroupStartY(g) ==
    IF g = 1 THEN current_y ELSE current_segments'[Len(current_segments) + g - 1].y

\* The quadratic control point of the g-th group of a T command: that of
\* the first group is the one of the code, the later ones are reflections.
RECURSIVE QuadControlX(_)
QuadControlX(g) ==
    IF g = 1
    THEN IF last_command \in {"Q", "T"} THEN 2 * current_x - last_control_x
         ELSE current_x
    ELSE 2 * GroupStartX(g) - QuadControlX(g - 1)
RECURSIVE QuadControlY(_)
QuadControlY(g) ==
    IF g = 1
    THEN IF last_command \in {"Q", "T"} THEN 2 * current_y - last_control_y
         ELSE current_y
    ELSE 2 * GroupStartY(g) - QuadControlY(g - 1)

C29_ReflectionAcrossGroups ==
    [][LET n == Len(current_segments)
           Later == 2..(Len(current_segments') - n)
       IN /\ (AtCommand("S") /\ ret'.tag = "None")
             => \A g \in Later :
                   LET seg == current_segments'[n + g]
                       prev == current_segments'[n + g - 1]
                   IN /\ seg.c1x = 2 * prev.x - prev.c2x
                      /\ seg.c1y = 2 * prev.y - prev.c2y
          /\ (AtCommand("T") /\ ret'.tag = "None")
             => \A g \in Later :
                   LET seg == current_segments'[n + g]
                   IN /\ seg.c1x = GroupStartX(g)
                                     + TwoThirds(QuadControlX(g) - GroupStartX(g))
                      /\ seg.c1y = GroupStartY(g)
                                     + TwoThirds(QuadControlY(g) - GroupStartY(g))
                      /\ seg.c2x = seg.x + TwoThirds(QuadControlX(g) - seg.x)
                      /\ seg.c2y = seg.y + TwoThirds(QuadControlY(g) - seg.y)
      ]_vars

(***************************************************************************)
(* C30.  Position of operand errors: when a command fails because it has   *)
(* too few operands or because a command letter stands where a number is   *)
(* expected, the position of the ParseError is the index of the offending  *)
(* token: the one after the numbers that follow the command letter (the    *)
(* length of the token sequence when the input ends there).                *)
(***************************************************************************)
OffendingToken == i + 1 + NumbersFrom(i + 1)

C30_OperandErrorPosition ==
    [][(/\ Running
        /\ i < Len(tokens)
        /\ tokens[i + 1].type = "Command"
        /\ ret'.tag = "Err")
       => ret'.position = OffendingToken
      ]_vars


(***************************************************************************)
(* C28.  Codec round-trip: for every FcmFile value f built from valid      *)
(* states of the Data Model, decoding the bytes that encoding f produced   *)
(* gives a value equal to f.                                               *)
(***************************************************************************)
C28_CodecRoundTrip ==
    (/\ Len(fcm) = 2
     /\ fcm[1].fn = "to_file"
     /\ fcm[1].bytes = encode(fcm[1].value)
     /\ ValidFile(fcm[1].value))
    => fcm[2].result = [tag |-> "Ok", file |-> fcm[1].value]

(***************************************************************************)
(* C31.  No segment leakage between subpaths: every segment of an emitted  *)
(* subpath was produced by a command executed after the move-to that set   *)
(* the subpath's start and before its flush; segments drawn while no       *)
(* subpath is open appear in no emitted subpath.  Checked at every step    *)
(* that emits a subpath: a move-to precedes it, and the subpath has no     *)
(* more segments than the commands from that move-to to the flush can      *)
(* produce (one per complete operand group, the first pair of the move-to  *)
(* excepted, at most four per arc), plus the closing line of a Z.          *)
(***************************************************************************)
IsMoveAt(p) == tokens[p].type = "Command" /\ tokens[p].cmd \in {"M", "m"}

\* The last move-to among the first k tokens (1-based), 0 if there is none.
RECURSIVE LastMove(_)
LastMove(k) == IF k = 0 THEN 0 ELSE IF IsMoveAt(k) THEN k ELSE LastMove(k - 1)

\* The most segments that the command at token p can append.
ProducibleAt(p) ==
    LET c == tokens[p].cmd
        n == NumbersFrom(p)
    IN CASE c \in {"M", "m"} -> (IF n >= 2 THEN n \div 2 - 1 ELSE 0)
         [] c \in {"Z", "z"} -> 0
         [] c \in {"A", "a"} -> 4 * (n \div 7)
         [] OTHER -> n \div GroupSize(c)

\* The most segments that the commands among tokens m..k can append.
RECURSIVE ProducibleBetween(_, _)
ProducibleBetween(m, k) ==
    IF k < m THEN 0
    ELSE (IF tokens[k].type = "Command" THEN ProducibleAt(k) ELSE 0)
         + ProducibleBetween(m, k - 1)

C31_NoSegmentLeakage ==
    [][EmitsOne
       => LET sp == LastOf(subpaths')
              m == LastMove(i)
          IN /\ m >= 1
             /\ Len(sp.outline.segments)
                  <= ProducibleBetween(m, i) + (IF sp.closed THEN 1 ELSE 0)
      ]_vars

(***************************************************************************)
(* C32.  Non-empty subpaths: every subpath that parse_to_subpaths holds or *)
(* returns has at least one segment.  A Z, an M or the end of the input    *)
(* met while no segment is accumulated (a move-to directly before it)      *)
(* emits no subpath, and an arc command whose operand groups all end on    *)
(* the current point accumulates no segment and emits no subpath.          *)
(***************************************************************************)
AtFlush == Running /\ (AtCommand("Z") \/ AtCommand("M") \/ i >= Len(tokens))

C32_NonEmptySubpaths ==
    [][/\ \A k \in 1..Len(subpaths') : Len(subpaths'[k].outline.segments) >= 1
       /\ (AtFlush /\ current_segments = <<>>) => subpaths' = subpaths
       /\ (AtCommand("A") /\ ret'.tag = "None"
             /\ \A g \in 1..ArcGroups : ArcOnCurrent(g))
          => current_segments' = current_segments /\ subpaths' = subpaths
      ]_vars

\* "M 0,0 a 5 5 0 0 1 0,0" at its end: the subpath is open, the arc has
\* appended nothing, and nothing is returned.
C32_Witness ==
    /\ ret.tag = "Ok"
    /\ ret.subpaths = <<>>
    /\ has_start
    /\ last_command = "A"
    /\ Len(tokens) = 11
    /\ IsMoveAt(1)

(***************************************************************************)
(* C33.  Subpaths correspond to move-tos: there are never more emitted     *)
(* subpaths than M/m commands in the input, and the starts of the emitted  *)
(* subpaths are, in order, the native-unit conversions of points set by    *)
(* move-tos that have been executed, taken in the order of those move-tos  *)
(* (the point of a move-to is its first coordinate pair, for m relative to *)
(* the current point at the command: the end of the last operand group     *)
(* before it, or after a Z the point of the last move-to).                 *)
(***************************************************************************)
\* The points set by the move-tos of t from token k on, in order; at is the
\* current point and start the point of the last move-to.
RECURSIVE MovePointsFrom(_, _, _, _)
MovePointsFrom(t, k, at, start) ==
    IF k > Len(t) \/ t[k].type = "Number" THEN <<>>
    ELSE LET c == t[k].cmd
         IN IF c \in {"Z", "z"} THEN MovePointsFrom(t, k + 1, start, start)
            ELSE LET n == NumbersAfter(t, k)
                     m == n \div GroupSize(c)
                     first == RelativeGroups(t, k + 1, 1, c, at).at
                     moved == c \in {"M", "m"} /\ m >= 1
                 IN (IF moved THEN <<first>> ELSE <<>>)
                      \o MovePointsFrom(t, k + 1 + n,
                                        RelativeGroups(t, k + 1, m, c, at).at,
                                        IF moved THEN first ELSE start)

MovePoints(t) == MovePointsFrom(t, 1, [x |-> 0, y |-> 0], [x |-> 0, y |-> 0])

MoveCount == Cardinality({p \in 1..Len(tokens) : IsMoveAt(p)})

\* a is b with some elements left out.
RECURSIVE Embeds(_, _)
Embeds(a, b) ==
    \/ a = <<>>
    \/ /\ b # <<>>
       /\ \/ Head(a) = Head(b) /\ Embeds(Tail(a), Tail(b))
          \/ Embeds(a, Tail(b))

C33_SubpathsFollowMoveTos ==
    LET executed == MovePoints(SubSeq(tokens, 1, i))
    IN /\ Len(subpaths) <= MoveCount
       /\ Embeds([k \in 1..Len(subpaths) |-> subpaths[k].start],
                 [k \in 1..Len(executed) |-> Native(executed[k].x, executed[k].y)])

\* "M 0,0 L 30,30 m 10,0 0,10 -10,0" at its end: two subpaths, the second
\* starts at (40,30), where the current point is (30,40).
C33_Witness ==
    /\ ret.tag = "Ok"
    /\ Len(ret.subpaths) = 2
    /\ ret.subpaths[1].start = Native(0, 0)
    /\ ret.subpaths[2].start = Native(40 * Res, 30 * Res)
    /\ current_x = 30 * Res /\ current_y = 40 * Res

(***************************************************************************)
(* C34.  parse is a projection of parse_to_subpaths: parse fails exactly   *)
(* when parse_to_subpaths fails, with the same error; otherwise it returns *)
(* one PathShape per subpath, in the same order, each with the subpath's   *)
(* start and exactly one outline, the subpath's outline, and nothing that  *)
(* represents the closed flag.                                             *)
(***************************************************************************)
C34_ParseIsProjection ==
    (caller = "parse" /\ file.tag # "None") =>
        /\ (file.tag = "Err") = (ret.tag = "Err")
        /\ (file.tag = "Ok") = (ret.tag = "Ok")
        /\ file.tag = "Err"
             => file.message = ret.message /\ file.position = ret.position
        /\ file.tag = "Ok"
             => /\ Len(file.shapes) = Len(ret.subpaths)
                /\ \A k \in 1..Len(ret.subpaths) :
                      /\ DOMAIN file.shapes[k] = {"start", "outlines"}
                      /\ file.shapes[k].start = ret.subpaths[k].start
                      /\ file.shapes[k].outlines = <<ret.subpaths[k].outline>>

\* parse returned two shapes, for a closed subpath and an open one.
C34_Witness ==
    /\ caller = "parse"
    /\ file.tag = "Ok"
    /\ Len(file.shapes) = 2
    /\ ret.subpaths[1].closed
    /\ ~ret.subpaths[2].closed

(***************************************************************************)
(* Termination of parse_to_subpaths.  The string and its tokens are        *)
(* finite, so the call ends when every step consumes input or returns, as  *)
(* long as a step is possible until it has returned.                       *)
(***************************************************************************)
\* An iteration of the tokenizer's loop (lines 505-600): it consumes at least
\* one character or leaves the loop with an error; after the last character
\* the loop ends (line 603).
TokenizerProgress ==
    pc = "tokenize" =>
        \/ ret'.tag # "None"
        \/ pc' = "tokenize" /\ pos < pos' /\ pos' <= Len(d) /\ d' = d
        \/ pc' = "parse_tokens" /\ pos >= Len(d)

\* An iteration of the interpreter's outer loop (lines 129-372): it consumes
\* at least one token or returns; an arm that returned no error consumed the
\* command, and every iteration of its operand loop one whole group.
InterpreterProgress ==
    Running =>
        \/ ret'.tag # "None"
        \/ /\ i < i' /\ i' <= Len(tokens) /\ tokens' = tokens
           /\ tokens[i + 1].type = "Command"
           /\ LET c == tokens[i + 1].cmd
                  consumed == i' - (i + 1)
              IN IF c \in {"Z", "z"} THEN consumed = 0
                 ELSE /\ consumed = NumbersAfter(tokens, i + 1)
                      /\ consumed % GroupSize(c) = 0

\* A step is possible.  A numeric literal is read whenever one starts
\* (lines 521-592).
CanStep ==
    \/ AtChar(NumberStart)
    \/ ENABLED (TokSeparator \/ TokCommand \/ TokUnexpected \/ TokReturn \/ Next)

\* C35: parsing terminates on every input, with a result or an error; every
\* iteration of the tokenizer's loop consumes at least one character, and
\* every iteration of the interpreter's outer loop and of a command's
\* operand loop at least one token.
C35_ParsingTerminates ==
    [][/\ TokenizerProgress
       /\ InterpreterProgress
       /\ ret.tag = "None" /\ CanStep
       /\ ret'.tag \in {"None", "Ok", "Err"}
       /\ ret'.tag = "None" => CanStep']_vars

(***************************************************************************)
(* Vocabulary of the properties of the thumbnail.  The bitmap is read as   *)
(* the 1-bit BMP that its header declares: 88 rows of 12 bytes, the bottom *)
(* row first, the leftmost pixel in the high bit, 0 for black.             *)
(***************************************************************************)
HeaderBytes == 62
ThumbnailBytes == 1118

OnThumbnail(px, py) == px \in 0..(SIZE - 1) /\ py \in 0..(SIZE - 1)
\* The byte of a buffer that holds a pixel, and the value of its bit.
ByteOfPixel(px, py) == (SIZE - 1 - py) * ROW_BYTES + (px \div 8) + 1
BitOfPixel(px) ==
    CASE px % 8 = 0 -> 128 [] px % 8 = 1 -> 64 [] px % 8 = 2 -> 32
      [] px % 8 = 3 -> 16 [] px % 8 = 4 -> 8 [] px % 8 = 5 -> 4
      [] px % 8 = 6 -> 2 [] px % 8 = 7 -> 1
\* The last byte of a row holds its 8 padding bits.
PaddingBytes == {row * ROW_BYTES : row \in 1..SIZE}

\* What one step may do to the buffer: nothing, or clear the bit of the
\* pixel that draw_line is at, when that pixel is on the thumbnail.
WritesOnlyThePixel ==
    \A k \in 1..Len(pixels) :
       pixels'[k] # pixels[k] =>
          /\ pc = "draw_line"
          /\ OnThumbnail(draw_line.x, draw_line.y)
          /\ k = ByteOfPixel(draw_line.x, draw_line.y)
          /\ pixels'[k] = pixels[k] - BitOfPixel(draw_line.x)

\* C36: generate_thumbnail returns exactly 1118 bytes, the 62-byte header
\* followed by 88 rows of 12 bytes; it clears only bits of pixels with
\* 0 <= x < 88 and 0 <= y < 88, never writes outside the pixel buffer,
\* leaves the 8 padding bits of every row set, and returns an all-white
\* image when the bounding box has zero or negative width or height.
C36_ThumbnailShape ==
    [][/\ pc' # "panicked"
       /\ Len(pixels') = SIZE * ROW_BYTES
       /\ WritesOnlyThePixel
       /\ \A k \in PaddingBytes : pixels'[k] = 255
       /\ pc' = "returned" =>
             /\ Len(bmp') = ThumbnailBytes
             /\ SubSeq(bmp', 1, HeaderBytes) = BMP_HEADER
             /\ SubSeq(bmp', HeaderBytes + 1, ThumbnailBytes) = pixels'
             /\ (max_x <= min_x \/ max_y <= min_y)
                   => \A k \in (HeaderBytes + 1)..ThumbnailBytes : bmp'[k] = 255]_vars

\* The call whose lines leave the thumbnail on three sides has returned a
\* bitmap with black pixels.
C36_Witness ==
    /\ pc = "returned"
    /\ paths = <<ShapelessPath, CutPath(LeavingShape)>>
    /\ Len(bmp) = ThumbnailBytes
    /\ \E k \in (HeaderBytes + 1)..ThumbnailBytes : bmp[k] # 255

\* The distance that draw_line has left, and the one it started with, in
\* pixels: the larger of the two along the axes.
Larger(a, b) == IF a >= b THEN a ELSE b
LineLeft == Larger(Abs(draw_line.x1 - draw_line.x), Abs(draw_line.y1 - draw_line.y))
LineLength == Larger(Abs(draw_line.x1 - cur_x), Abs(draw_line.y1 - cur_y))
BlackPixels(buf) ==
    Cardinality({p \in (0..(SIZE - 1)) \X (0..(SIZE - 1)) :
                   (buf[ByteOfPixel(p[1], p[2])] \div BitOfPixel(p[1])) % 2 = 0})

\* C37: for endpoints that the transform of the thumbnail produces, the loop
\* of draw_line reaches (x1, y1) and stops after at most
\* max(|x1 - x0|, |y1 - y0|) + 1 plotted points, and every step moves x and
\* y by at most one pixel toward the endpoint.
C37_LineRasterizationTerminates ==
    [][pc = "draw_line" =>
          IF draw_line.x = draw_line.x1 /\ draw_line.y = draw_line.y1
          THEN /\ pc' = "paths"
               /\ cur_x' = draw_line.x1 /\ cur_y' = draw_line.y1
               /\ (next_seg.path = 1 /\ next_seg.seg = 1)
                     => BlackPixels(pixels') <= LineLength + 1
          ELSE /\ pc' = "draw_line"
               /\ Abs(draw_line'.x - draw_line.x) <= 1
               /\ Abs(draw_line'.y - draw_line.y) <= 1
               /\ Abs(draw_line.x1 - draw_line'.x) <= Abs(draw_line.x1 - draw_line.x)
               /\ Abs(draw_line.y1 - draw_line'.y) <= Abs(draw_line.y1 - draw_line.y)
               /\ LineLeft' = LineLeft - 1
               /\ LineLeft <= LineLength]_vars

\* A line of 80 pixels across and 40 down has been drawn to its end.
C37_Witness ==
    /\ pc = "paths"
    /\ next_seg = [path |-> 1, seg |-> 2]
    /\ Len(paths) = 2
    /\ cur_x = 84 /\ cur_y = 64
    /\ draw_line.x = 84 /\ draw_line.y = 64
    /\ draw_line.dx = 80 /\ draw_line.dy = -40
    /\ BlackPixels(pixels) = 81

\* The extent of a set of coordinates: 0 for none.
ExtentOf(S) == IF S = {} THEN 0 ELSE Greatest(S) - Least(S)

\* C38: for every path string that parses, also one that yields no subpath
\* ("", "M 0,0", "M 0,0 Z"), svg_to_print_and_cut_fcm computes max - min and
\* min + max in i32 without overflow and returns a Piece whose width and
\* height are the non-negative extent of the geometry.
C38_NoOverflowInBounds ==
    (caller = "svg_to_print_and_cut_fcm" /\ ret.tag = "Ok" /\ file # NoFile) =>
        /\ ~Extent(Bounds(parse(ret).shapes)).overflow
        /\ file.tag = "Ok"
        /\ LET piece == file.piece_table.pieces[1][2]
               P == VisitedPoints(parse(ret).shapes)
           IN /\ piece.width = ExtentOf({p.x : p \in P})
              /\ piece.height = ExtentOf({p.y : p \in P})

====
